---------------------------- MODULE Spec2Model ----------------------------
(***************************************************************************)
(* curl-filter: the filter rule engine (src/src/utils/filterEngine.ts).    *)
(*                                                                         *)
(* Strings are sequences of one-character strings, so that the matcher's  *)
(* prefix, suffix, substring and case rules are computed and not assumed. *)
(* A JavaScript object is a function from its own keys to its values.      *)
(* Object identity is modelled where the code relies on it: a collection   *)
(* handed to the engine is either copied or shared with the caller.        *)
(***************************************************************************)
EXTENDS Integers, Sequences, FiniteSets, TLC

\* ------------------------------------------------------------------ bounds
\* longest rule array handed to setRules
MaxRules == 2
\* applyFilters calls counted on one (rule array, context) pair
MaxCalls == 2

\* ----------------------------------------------------------------- strings
\* A string of the program is a TLA+ string; Chars gives its characters, which
\* is what the string functions below work on.
EmptyStr == ""

Chars ==
    [s \in {"", "a", "A", "b", "0", "1", "ab", "AB", "ba", "^.", "[a"} |->
        CASE s = "" -> << >>
          [] s = "a" -> <<"a">>
          [] s = "A" -> <<"A">>
          [] s = "b" -> <<"b">>
          [] s = "0" -> <<"0">>
          [] s = "1" -> <<"1">>
          [] s = "ab" -> <<"a", "b">>
          [] s = "AB" -> <<"A", "B">>
          [] s = "ba" -> <<"b", "a">>
          [] s = "^." -> <<"^", ".">>
          [] s = "[a" -> <<"[", "a">>]

\* the characters of any string: the table where it has the string, the
\* string taken apart otherwise
CharsOf(s) == IF s \in DOMAIN Chars THEN Chars[s] ELSE [i \in 1..Len(s) |-> SubSeq(s, i, i)]

LowerOf == [c \in {"a", "b", "A", "B", "0", "1", "^", "[", "."} |->
              CASE c = "A" -> "a" [] c = "B" -> "b" [] OTHER -> c]

\* String.prototype.toLowerCase
toLowerCase(s) == [i \in 1..Len(s) |-> LowerOf[s[i]]]

\* String.prototype.startsWith
startsWith(s, p) ==
    /\ Len(p) <= Len(s)
    /\ \A i \in 1..Len(p) : s[i] = p[i]

\* String.prototype.endsWith
endsWith(s, p) ==
    /\ Len(p) <= Len(s)
    /\ \A i \in 1..Len(p) : s[Len(s) - Len(p) + i] = p[i]

\* String.prototype.includes
includes(s, p) ==
    \E off \in 0..(Len(s) - Len(p)) : \A i \in 1..Len(p) : s[off + i] = p[i]

\* new RegExp(pattern, 'i') for the pattern alphabet of the model: a letter or
\* digit is a literal, "." any character, "^" the start of the input, and "["
\* opens a character class that nothing closes, which is a SyntaxError.
RegExpCompiles(pattern) == \A i \in 1..Len(pattern) : pattern[i] # "["

RECURSIVE RegExpMatchHere(_, _, _, _)
RegExpMatchHere(pattern, i, value, j) ==
    IF i > Len(pattern) THEN TRUE
    ELSE IF pattern[i] = "^" THEN j = 1 /\ RegExpMatchHere(pattern, i + 1, value, j)
    ELSE IF j > Len(value) THEN FALSE
    ELSE IF pattern[i] = "." THEN RegExpMatchHere(pattern, i + 1, value, j + 1)
    ELSE /\ LowerOf[pattern[i]] = LowerOf[value[j]]
         /\ RegExpMatchHere(pattern, i + 1, value, j + 1)

\* RegExp.prototype.test of a compiled pattern (flag i, no flag g)
RegExpTest(pattern, value) ==
    \E j \in 1..(Len(value) + 1) : RegExpMatchHere(pattern, 1, value, j)

\* -------------------------------------------------------------- enum types
FilterAction == {"delete", "delete_all", "keep", "keep_all"}
FilterTarget == {"headers", "query_params", "form_data", "json_body"}
MatchMode == {"exact", "contains", "regex", "starts_with", "ends_with"}

\* ------------------------------------------------------------ field matcher
\* The body of isMatch's switch on the characters of value and pattern:
\* "match", "nomatch", or "throw" when new RegExp raises.
matchSwitch(value, pattern, mode) ==
    CASE mode = "exact" -> IF value = pattern THEN "match" ELSE "nomatch"
      [] mode = "contains" ->
            IF includes(toLowerCase(value), toLowerCase(pattern)) THEN "match" ELSE "nomatch"
      [] mode = "starts_with" ->
            IF startsWith(toLowerCase(value), toLowerCase(pattern)) THEN "match" ELSE "nomatch"
      [] mode = "ends_with" ->
            IF endsWith(toLowerCase(value), toLowerCase(pattern)) THEN "match" ELSE "nomatch"
      [] mode = "regex" ->
            IF ~RegExpCompiles(pattern) THEN "throw"
            ELSE IF RegExpTest(pattern, value) THEN "match" ELSE "nomatch"
      [] OTHER -> "nomatch"

matchOutcomeUncaught(valueStr, patternStr, mode) ==
    matchSwitch(CharsOf(valueStr), CharsOf(patternStr), mode)

\* catch (error) { console.warn(...); return false; }
catchError(tried) == IF tried = "throw" THEN "nomatch" ELSE tried

\* isMatch without its try/catch: the SyntaxError of new RegExp escapes
matchOutcome_noCatch(value, pattern, mode) ==
    IF pattern = EmptyStr THEN "nomatch"
    ELSE matchOutcomeUncaught(value, pattern, mode)

\* isMatch with its guard and its try/catch: "match", "nomatch" or "throw"
matchOutcome(value, pattern, mode) ==
    IF pattern = EmptyStr THEN "nomatch"
    ELSE catchError(matchOutcomeUncaught(value, pattern, mode))

isMatch(value, pattern, mode) == matchOutcome(value, pattern, mode) = "match"

\* findMatchingKeys: for each key, the outcome of the filter callback; a rule
\* the early return handles gives "nomatch" for every key
findMatchingOutcomes(keys, rule) ==
    IF rule.matchValue = EmptyStr /\ rule.action \in {"delete", "keep"}
    THEN [key \in keys |-> "nomatch"]
    ELSE [key \in keys |-> matchOutcome(key, rule.matchValue, rule.matchMode)]

\* findMatchingKeys: the keys (as a set; each key is visited once) that match
findMatchingKeys(keys, rule) ==
    LET outcome == findMatchingOutcomes(keys, rule)
    IN  {key \in keys : outcome[key] = "match"}

\* ------------------------------------------------------------- JS objects
NoFields == [k \in {} |-> 0]

\* delete obj[key] for every key of ks
DeleteKeys(obj, ks) == [k \in (DOMAIN obj) \ ks |-> obj[k]]

\* a keep that writes nothing back
AssignKeys_writesNothing(obj, src, ks) == obj

\* a keep that writes back the value of some key of the original, not that
\* of the key it restores
AssignKeys_anyValue(obj, src, ks) ==
    [k \in (DOMAIN obj) \cup ks |->
        IF k \in ks THEN src[CHOOSE o \in DOMAIN src : \A m \in DOMAIN src : src[o] = src[m] \/ o # k]
        ELSE obj[k]]

\* obj[key] = src[key] for every key of ks
AssignKeys(obj, src, ks) ==
    [k \in (DOMAIN obj) \cup ks |-> IF k \in ks THEN src[k] ELSE obj[k]]

\* A JSON value: a primitive (p is its JSON text), an array (n is its length,
\* v maps the index keys that are present to the elements) or an object (v
\* maps its keys to its values). Every level has the same four fields.
JPrim(text) == [t |-> "prim", p |-> text, v |-> NoFields, n |-> 0]
JNull == JPrim("null")
JObj(fields) == [t |-> "obj", p |-> "", v |-> fields, n |-> 0]
\* String(n) of a natural number
RECURSIVE DecimalOf(_)
DecimalOf(n) ==
    IF n < 10 THEN <<"0", "1", "2", "3", "4", "5", "6", "7", "8", "9">>[n + 1]
    ELSE DecimalOf(n \div 10) \o DecimalOf(n % 10)

\* the index keys "0".."n-1" of an array of length n
IndexKeys(n) == {DecimalOf(k) : k \in 0..(n - 1)}

JArr(elems) == [t |-> "arr", p |-> "", n |-> Len(elems),
                v |-> [k \in IndexKeys(Len(elems)) |->
                         elems[(CHOOSE i \in 1..Len(elems) : DecimalOf(i - 1) = k)]]]

\* JavaScript truthiness of a JSON value
Truthy(j) == j.t # "prim" \/ j.p \notin {"null", "0", "false", "''"}

\* typeof j === 'object' (null included, as in JavaScript)
TypeofObject(j) == j.t \in {"obj", "arr"} \/ j = JNull

\* JSON.parse(JSON.stringify(j)): a deep copy; a hole of an array reads null
RECURSIVE jsonClone(_)
jsonClone(j) ==
    CASE j.t = "arr" ->
            [j EXCEPT !.v = [k \in IndexKeys(j.n) |->
                               IF k \in DOMAIN j.v THEN jsonClone(j.v[k]) ELSE JNull]]
      [] j.t = "obj" -> [j EXCEPT !.v = [k \in DOMAIN j.v |-> jsonClone(j.v[k])]]
      [] OTHER -> j

\* ------------------------------------------------------------------ engine
\* the caller's own object instead of a copy of it
ShallowCopy_shared(obj) == [obj |-> obj, shared |-> TRUE]

\* { ...obj }: a new object with the same own properties. "shared" says
\* whether the object the engine goes on to write is the caller's own.
ShallowCopy(obj) == [obj |-> obj, shared |-> FALSE]

\* context.jsonBody ? JSON.parse(JSON.stringify(context.jsonBody)) : null
CopyJsonBody(jsonBody) ==
    [obj |-> IF Truthy(jsonBody) THEN jsonClone(jsonBody) ELSE JNull, shared |-> FALSE]

\* the comparator with its operands swapped: ascending priority
comparePriority_ascending(a, b) == a.priority - b.priority

\* the comparator handed to Array.prototype.sort
comparePriority(a, b) == b.priority - a.priority

\* Array.prototype.sort is stable: an element goes before the first element
\* the comparator orders it strictly before, and after all the others.
InsertSorted(sorted, r) ==
    LET before == {i \in 1..Len(sorted) : comparePriority(r, sorted[i]) < 0}
        at == IF before = {} THEN Len(sorted) + 1
              ELSE CHOOSE i \in before : \A j \in before : i <= j
    IN  SubSeq(sorted, 1, at - 1) \o <<r>> \o SubSeq(sorted, at, Len(sorted))

RECURSIVE SortRules(_, _)
SortRules(rs, done) ==
    IF rs = << >> THEN done ELSE SortRules(Tail(rs), InsertSorted(done, Head(rs)))

\* the sort without the filter on rule.enabled
enabledRulesOf_all(rs) == SortRules(rs, << >>)

\* this.rules.filter(rule => rule.enabled).sort((a, b) => b.priority - a.priority)
enabledRulesOf(rs) ==
    LET Enabled(r) == r.enabled IN SortRules(SelectSeq(rs, Enabled), << >>)

\* groupRulesByTarget, one group
groupRulesByTarget(rs, target) ==
    LET OnTarget(r) == r.target = target IN SelectSeq(rs, OnTarget)

globalRulesOf(rs) ==
    LET Global(r) == r.action \in {"delete_all", "keep_all"} IN SelectSeq(rs, Global)

specificRulesOf(rs) ==
    LET Specific(r) == r.action \in {"delete", "keep"} IN SelectSeq(rs, Specific)

\* The state of one collection while its rules run: obj is the result
\* collection as it stands, replaced says the result field was reassigned to a
\* new empty object (which the caller does not share), shared whether obj is
\* the caller's own object, applied the IDs pushed, threw whether an exception
\* has escaped.
\*
\* the global phase taking the last global rule, not the first
globalPhase_lastGlobal(cell, rs) ==
    LET globalRules == globalRulesOf(rs)
        highestGlobalRule == globalRules[Len(globalRules)]
        replaced == globalRules # << >> /\ highestGlobalRule.action = "delete_all"
    IN  [obj |-> IF replaced THEN NoFields ELSE cell.obj,
         replaced |-> replaced,
         shared |-> cell.shared /\ ~replaced,
         applied |-> IF globalRules # << >> THEN <<highestGlobalRule.id>> ELSE << >>,
         threw |-> FALSE]

\* the global phase: only globalRules[0] is looked at
globalPhase(cell, rs) ==
    LET globalRules == globalRulesOf(rs)
        highestGlobalRule == globalRules[1]
        replaced == globalRules # << >> /\ highestGlobalRule.action = "delete_all"
    IN  [obj |-> IF replaced THEN NoFields ELSE cell.obj,
         replaced |-> replaced,
         shared |-> cell.shared /\ ~replaced,
         applied |-> IF globalRules # << >> THEN <<highestGlobalRule.id>> ELSE << >>,
         threw |-> FALSE]

\* the body of specificRules.forEach for one rule, given the outcome of
\* findMatchingKeys on the keys of the original collection
applySpecificRule(acc, original, rule, outcome) ==
    LET matchingKeys == {key \in DOMAIN original : outcome[key] = "match"}
    IN  IF \E key \in DOMAIN original : outcome[key] = "throw"
        THEN [acc EXCEPT !.threw = TRUE]
        ELSE [acc EXCEPT
                !.obj = IF rule.action = "delete" THEN DeleteKeys(acc.obj, matchingKeys)
                        ELSE AssignKeys(acc.obj, original, matchingKeys),
                !.applied = IF matchingKeys # {} THEN Append(@, rule.id) ELSE @]

\* specificRules.forEach(...) from rule i on; an exception ends the loop
RECURSIVE specificPhase(_, _, _, _)
specificPhase(acc, original, rs, i) ==
    IF i > Len(rs) \/ acc.threw THEN acc
    ELSE specificPhase(
             applySpecificRule(acc, original, rs[i],
                               findMatchingOutcomes(DOMAIN original, rs[i])),
             original, rs, i + 1)

\* the specific phase matching the keys left after the global phase, not the
\* keys of the original collection
applyCollectionRules_matchCurrent(cell, original, rs) ==
    specificPhase(globalPhase(cell, rs), globalPhase(cell, rs).obj, specificRulesOf(rs), 1)

\* The body shared by applyHeaderRules, applyQueryParamRules, applyFormDataRules
\* and applyJsonBodyRules, on one collection cell [obj, shared] and the
\* snapshot "original" taken on entry: the global phase, then the specific
\* phase.
applyCollectionRules(cell, original, rs) ==
    specificPhase(globalPhase(cell, rs), original, specificRulesOf(rs), 1)

\* The engine's working state w while applyFilters runs: the FilterResult
\* under construction, the caller's FilterContext as it now stands, which
\* result collections are the caller's own objects, and whether an exception
\* has escaped (the rest of the call is then skipped).
\*
\* w once the rules of a target have left its field of the result as value
writeResult(w, field, value, out) ==
    [result |-> [w.result EXCEPT ![field] = value,
                                 !.appliedRules = @ \o out.applied],
     context |-> IF out.shared THEN [w.context EXCEPT ![field] = value] ELSE w.context,
     shared |-> [w.shared EXCEPT ![field] = out.shared],
     threw |-> out.threw]

writeCollection(w, field, out) == writeResult(w, field, out.obj, out)

\* result.jsonBody = {} after delete_all, else the body with its keys filtered
writeJsonBody(w, out) ==
    writeResult(w, "jsonBody",
                IF out.replaced THEN JObj(out.obj) ELSE [w.result.jsonBody EXCEPT !.v = out.obj],
                out)

applyHeaderRules(w, rs) ==
    IF w.threw THEN w ELSE
    writeCollection(w, "headers",
        applyCollectionRules([obj |-> w.result.headers, shared |-> w.shared.headers],
                             ShallowCopy(w.result.headers).obj, rs))

applyQueryParamRules(w, rs) ==
    IF w.threw THEN w ELSE
    writeCollection(w, "queryParams",
        applyCollectionRules([obj |-> w.result.queryParams, shared |-> w.shared.queryParams],
                             ShallowCopy(w.result.queryParams).obj, rs))

applyFormDataRules(w, rs) ==
    IF w.threw THEN w ELSE
    writeCollection(w, "formData",
        applyCollectionRules([obj |-> w.result.formData, shared |-> w.shared.formData],
                             ShallowCopy(w.result.formData).obj, rs))

\* if (!result.jsonBody || typeof result.jsonBody !== 'object') return;
jsonBodyIsFiltered(jsonBody) == Truthy(jsonBody) /\ TypeofObject(jsonBody)

applyJsonBodyRules(w, rs) ==
    IF w.threw \/ ~jsonBodyIsFiltered(w.result.jsonBody) THEN w ELSE
    writeJsonBody(w,
        applyCollectionRules([obj |-> w.result.jsonBody.v, shared |-> w.shared.jsonBody],
                             jsonClone(w.result.jsonBody).v, rs))

\* the FilterResult applyFilters starts from: copies of the context's fields
newResult(context) ==
    LET headers == ShallowCopy(context.headers)
        queryParams == ShallowCopy(context.queryParams)
        formData == ShallowCopy(context.formData)
        jsonBody == CopyJsonBody(context.jsonBody)
    IN  [result |-> [headers |-> headers.obj,
                     queryParams |-> queryParams.obj,
                     formData |-> formData.obj,
                     jsonBody |-> jsonBody.obj,
                     appliedRules |-> << >>,
                     warnings |-> << >>],
         context |-> context,
         shared |-> [headers |-> headers.shared,
                     queryParams |-> queryParams.shared,
                     formData |-> formData.shared,
                     jsonBody |-> jsonBody.shared],
         threw |-> FALSE]

\* Object.entries(rulesByTarget).forEach: the four targets in the order
\* groupRulesByTarget lists them
applyRulesByTarget(w, enabledRules) ==
    applyJsonBodyRules(
        applyFormDataRules(
            applyQueryParamRules(
                applyHeaderRules(w, groupRulesByTarget(enabledRules, "headers")),
                groupRulesByTarget(enabledRules, "query_params")),
            groupRulesByTarget(enabledRules, "form_data")),
        groupRulesByTarget(enabledRules, "json_body"))

\* applyFilters(context) on the rule array rs held by the engine: the working
\* state after the four targets
applyFilters(rs, context) == applyRulesByTarget(newResult(context), enabledRulesOf(rs))

\* ------------------------------------------------------- inputs of the model
\* field names
kab == "ab"
kAB == "AB"
kba == "ba"
kb == "b"

\* (matchMode, matchValue) pairs of the rules on headers: every mode, both
\* letter cases, patterns that match one key, several keys and every key, the
\* empty pattern, and a pattern RegExp rejects.
MatchSpecs ==
    { <<"exact", "ab">>,
      <<"contains", "A">>,
      <<"starts_with", "a">>,
      <<"ends_with", EmptyStr>>,
      <<"regex", "^.">>,
      <<"regex", "[a">> }

\* the pairs of the rules on the other three targets
FewMatchSpecs ==
    { <<"exact", "ab">>,
      <<"regex", "^.">>,
      <<"regex", "[a">> }

MatchSpecsOn(target) == IF target = "headers" THEN MatchSpecs ELSE FewMatchSpecs

Priorities == {10, 90}

RuleIds == <<"r1", "r2", "r3", "r4">>

\* the rules a caller may add; a delete_all / keep_all rule carries an empty
\* matchValue or, on headers, also a leftover pattern that RegExp rejects
GlobalMatchSpecsOn(target) ==
    IF target = "headers" THEN {<<"exact", EmptyStr>>, <<"regex", "[a">>}
    ELSE {<<"exact", EmptyStr>>}

NewRules ==
    { [action |-> a, target |-> tm[1], matchMode |-> tm[2][1], matchValue |-> tm[2][2],
       priority |-> pr, enabled |-> en] :
        a \in {"delete", "keep"},
        tm \in UNION {{<<t, ms>> : ms \in MatchSpecsOn(t)} : t \in FilterTarget},
        pr \in Priorities, en \in BOOLEAN }
    \cup
    { [action |-> a, target |-> tm[1], matchMode |-> tm[2][1], matchValue |-> tm[2][2],
       priority |-> pr, enabled |-> en] :
        a \in {"delete_all", "keep_all"},
        tm \in UNION {{<<t, ms>> : ms \in GlobalMatchSpecsOn(t)} : t \in FilterTarget},
        pr \in Priorities, en \in BOOLEAN }

WithId(r, id) ==
    [id |-> id, action |-> r.action, target |-> r.target, matchMode |-> r.matchMode,
     matchValue |-> r.matchValue, priority |-> r.priority, enabled |-> r.enabled]

SomeHeaders == (kab :> "v1") @@ (kAB :> "v2") @@ (kba :> "v3")
SomeParams == (kab :> "1") @@ (kb :> "2")
SomeForm == (kba :> "x") @@ (kAB :> "y")
SomeObject == JObj((kab :> JPrim("'s'")) @@ (kb :> JObj(kba :> JPrim("0"))) @@ (kAB :> JPrim("1")))
SomeArray == JArr(<<JPrim("'s'"), JPrim("0")>>)

Context(h, q, f, j) ==
    [headers |-> h, queryParams |-> q, formData |-> f, jsonBody |-> j,
     url |-> "https://h/p", method |-> "POST"]

\* a request carries a form body or a JSON body, never both
Contexts ==
    { Context(SomeHeaders, SomeParams, NoFields, SomeObject),
      Context(SomeHeaders, NoFields, SomeForm, JNull),
      Context(NoFields, SomeParams, NoFields, SomeArray),
      Context(SomeHeaders, NoFields, NoFields, JPrim("'s'")),
      Context(NoFields, SomeParams, NoFields, JPrim("0")) }

EmptyContext == Context(NoFields, NoFields, NoFields, JNull)

EmptyResult ==
    [headers |-> NoFields, queryParams |-> NoFields, formData |-> NoFields,
     jsonBody |-> JNull, appliedRules |-> << >>, warnings |-> << >>]

\* ------------------------------------------------------------- JS strings
\* The text of a command is a TLA+ string, that is a sequence of characters:
\* Len, SubSeq and \o are those of Sequences. Positions count from 1 (the
\* program's count from 0).
charAt(s, i) == IF i \in 1..Len(s) THEN SubSeq(s, i, i) ELSE ""

\* s.substring(from - 1, to): the characters from..to that the string has
Slice(s, from, to) ==
    IF from > Len(s) \/ to < from THEN ""
    ELSE SubSeq(s, from, IF to > Len(s) THEN Len(s) ELSE to)

\* the characters \s of a regular expression matches
IsSpace(c) == c \in {" ", "\n", "\t"}

\* the character class ["']
IsQuote(c) == c \in {"\"", "'"}

\* String.prototype.startsWith / endsWith / includes on the text of a command
StartsWith(s, p) == Len(p) <= Len(s) /\ SubSeq(s, 1, Len(p)) = p

EndsWith(s, p) == Len(p) <= Len(s) /\ SubSeq(s, Len(s) - Len(p) + 1, Len(s)) = p

Includes(s, p) == \E i \in 1..(Len(s) - Len(p) + 1) : SubSeq(s, i, i + Len(p) - 1) = p

\* String.prototype.indexOf: the first position of p in s, 0 when there is none
IndexOf(s, p) ==
    IF ~Includes(s, p) THEN 0
    ELSE CHOOSE i \in 1..(Len(s) - Len(p) + 1) :
             /\ SubSeq(s, i, i + Len(p) - 1) = p
             /\ \A j \in 1..(i - 1) : SubSeq(s, j, j + Len(p) - 1) # p

\* String.prototype.trim
Trim(s) ==
    IF \A i \in 1..Len(s) : IsSpace(charAt(s, i)) THEN ""
    ELSE SubSeq(s, CHOOSE i \in 1..Len(s) :
                       /\ ~IsSpace(charAt(s, i))
                       /\ \A j \in 1..(i - 1) : IsSpace(charAt(s, j)),
                   CHOOSE i \in 1..Len(s) :
                       /\ ~IsSpace(charAt(s, i))
                       /\ \A j \in (i + 1)..Len(s) : IsSpace(charAt(s, j)))

LowerChar(c) ==
    CASE c = "A" -> "a" [] c = "B" -> "b" [] c = "C" -> "c" [] c = "D" -> "d"
      [] c = "E" -> "e" [] c = "F" -> "f" [] c = "G" -> "g" [] c = "H" -> "h"
      [] c = "I" -> "i" [] c = "J" -> "j" [] c = "K" -> "k" [] c = "L" -> "l"
      [] c = "M" -> "m" [] c = "N" -> "n" [] c = "O" -> "o" [] c = "P" -> "p"
      [] c = "Q" -> "q" [] c = "R" -> "r" [] c = "S" -> "s" [] c = "T" -> "t"
      [] c = "U" -> "u" [] c = "V" -> "v" [] c = "W" -> "w" [] c = "X" -> "x"
      [] c = "Y" -> "y" [] c = "Z" -> "z" [] OTHER -> c

\* the ASCII characters by code, code 0 first; a control character that TLA+
\* cannot write stands as its code between angle brackets
AsciiChars ==
    <<
       "<00>", "<01>", "<02>", "<03>", "<04>", "<05>", "<06>", "<07>",
       "<08>", "\t", "\n", "<0B>", "\f", "\r", "<0E>", "<0F>",
       "<10>", "<11>", "<12>", "<13>", "<14>", "<15>", "<16>", "<17>",
       "<18>", "<19>", "<1A>", "<1B>", "<1C>", "<1D>", "<1E>", "<1F>",
       " ", "!", "\"", "#", "$", "%", "&", "'",
       "(", ")", "*", "+", ",", "-", ".", "/",
       "0", "1", "2", "3", "4", "5", "6", "7",
       "8", "9", ":", ";", "<", "=", ">", "?",
       "@", "A", "B", "C", "D", "E", "F", "G",
       "H", "I", "J", "K", "L", "M", "N", "O",
       "P", "Q", "R", "S", "T", "U", "V", "W",
       "X", "Y", "Z", "[", "\\", "]", "^", "_",
       "<60>", "a", "b", "c", "d", "e", "f", "g",
       "h", "i", "j", "k", "l", "m", "n", "o",
       "p", "q", "r", "s", "t", "u", "v", "w",
       "x", "y", "z", "{", "|", "}", "~", "<7F>" >>

Ascii == {AsciiChars[n] : n \in 1..128}

\* s with every character c replaced by f[c]
RECURSIVE mapChars(_, _)
mapChars(s, f) ==
    IF Len(s) = 0 THEN ""
    ELSE IF Len(s) = 1 THEN f[s]
    ELSE mapChars(SubSeq(s, 1, Len(s) \div 2), f)
         \o mapChars(SubSeq(s, Len(s) \div 2 + 1, Len(s)), f)

\* String.prototype.toLowerCase on the text of a command
LowerCase(s) == mapChars(s, [c \in Ascii |-> LowerChar(c)])

\* replace(/["']/g, ''): every quote character removed
removeQuotes(s) == mapChars(s, [c \in Ascii |-> IF IsQuote(c) THEN "" ELSE c])

\* replace(/^["']|["']$/g, ''): one quote character removed at the start and
\* one at the end (a string that is a single quote character becomes empty)
stripQuotes(s) ==
    LET from == IF Len(s) >= 1 /\ IsQuote(charAt(s, 1)) THEN 2 ELSE 1
        to == IF Len(s) >= from /\ IsQuote(charAt(s, Len(s))) THEN Len(s) - 1 ELSE Len(s)
    IN  SubSeq(s, from, to)

\* --------------------------------------------------------- command parser
\* the first position from i on whose character is c, Len(s) + 1 if none
firstOf(s, i, c) ==
    IF i > Len(s) THEN Len(s) + 1
    ELSE CHOOSE j \in i..(Len(s) + 1) :
             /\ j = Len(s) + 1 \/ (charAt(s, j) = c)
             /\ \A k \in i..(j - 1) : ~(charAt(s, k) = c)

\* the first position from i on that holds white space, Len(s) + 1 if none
firstSpace(s, i) ==
    IF i > Len(s) THEN Len(s) + 1
    ELSE CHOOSE j \in i..(Len(s) + 1) :
             /\ j = Len(s) + 1 \/ (IsSpace(charAt(s, j)))
             /\ \A k \in i..(j - 1) : ~(IsSpace(charAt(s, k)))

\* the first position from i on that holds no white space, Len(s) + 1 if none
firstInk(s, i) ==
    IF i > Len(s) THEN Len(s) + 1
    ELSE CHOOSE j \in i..(Len(s) + 1) :
             /\ j = Len(s) + 1 \/ (~IsSpace(charAt(s, j)))
             /\ \A k \in i..(j - 1) : IsSpace(charAt(s, k))

\* the end of the longest match of \s*\n from position i on: the position of
\* the last line feed in the run of white space that starts at i, 0 if none
lastLineFeed(s, i) ==
    LET feeds == {j \in i..(firstInk(s, i) - 1) : charAt(s, j) = "\n"}
    IN  IF feeds = {} THEN 0 ELSE CHOOSE j \in feeds : \A k \in feeds : j >= k

\* the first backslash from i on that white space and a line feed follow,
\* Len(s) + 1 if none
firstContinuation(s, i) ==
    IF i > Len(s) THEN Len(s) + 1
    ELSE CHOOSE j \in i..(Len(s) + 1) :
             /\ j = Len(s) + 1 \/ (charAt(s, j) = "\\" /\ lastLineFeed(s, j + 1) # 0)
             /\ \A k \in i..(j - 1) : ~(charAt(s, k) = "\\" /\ lastLineFeed(s, k + 1) # 0)

\* replace(/\\\s*\n/g, ' '), from position i on: a backslash, white space and
\* a line feed become one space
RECURSIVE joinLines(_, _)
joinLines(s, i) ==
    IF firstContinuation(s, i) > Len(s) THEN SubSeq(s, i, Len(s))
    ELSE SubSeq(s, i, firstContinuation(s, i) - 1) \o " "
         \o joinLines(s, lastLineFeed(s, firstContinuation(s, i) + 1) + 1)

\* replace(/\s+/g, ' '), from position i on: every run of white space becomes
\* one space
RECURSIVE collapseSpaces(_, _)
collapseSpaces(s, i) ==
    IF firstSpace(s, i) > Len(s) THEN SubSeq(s, i, Len(s))
    ELSE SubSeq(s, i, firstSpace(s, i) - 1) \o " "
         \o collapseSpaces(s, firstInk(s, firstSpace(s, i)))

cleanCommand(curlCommand) == Trim(collapseSpaces(joinLines(curlCommand, 1), 1))

\* the first quote character from i on, Len(s) + 1 if none
firstQuote(s, i) ==
    IF i > Len(s) THEN Len(s) + 1
    ELSE CHOOSE j \in i..(Len(s) + 1) :
             /\ j = Len(s) + 1 \/ (IsQuote(charAt(s, j)))
             /\ \A k \in i..(j - 1) : ~(IsQuote(charAt(s, k)))

\* The tokenizer loop reads the characters one by one; a token ends at the
\* first space that is outside quotes. tokenEnd is the position of that space
\* for the token that holds position i (outside quotes), Len(s) + 1 when the
\* token runs to the end of the text (an unmatched quote runs to the end).
RECURSIVE tokenEnd(_, _)
tokenEnd(s, i) ==
    IF firstQuote(s, i) < firstOf(s, i, " ")
    THEN IF firstOf(s, firstQuote(s, i) + 1, charAt(s, firstQuote(s, i))) > Len(s)
         THEN Len(s) + 1
         ELSE tokenEnd(s, firstOf(s, firstQuote(s, i) + 1, charAt(s, firstQuote(s, i))) + 1)
    ELSE firstOf(s, i, " ")

\* tokens.push(current.trim()) when current.trim() is not empty
pushToken(tokens, current) ==
    IF Trim(current) # "" THEN Append(tokens, Trim(current)) ELSE tokens

\* the tokenizer from position i on, which starts a token
RECURSIVE tokenize(_, _, _)
tokenize(s, i, tokens) ==
    IF i > Len(s) THEN tokens
    ELSE tokenize(s, tokenEnd(s, i) + 1, pushToken(tokens, SubSeq(s, i, tokenEnd(s, i) - 1)))

tokensOf(curlCommand) == tokenize(cleanCommand(curlCommand), 1, << >>)

\* A Record<string, string> of the parser: Object.entries lists the keys in
\* the order they were first written, the keys that are array indices before
\* the others and in ascending order. keys is that order, v the values.
EmptyObject == [keys |-> << >>, v |-> NoFields]

IsDigit(c) == c \in {"0", "1", "2", "3", "4", "5", "6", "7", "8", "9"}

DigitValue(c) ==
    CASE c = "0" -> 0 [] c = "1" -> 1 [] c = "2" -> 2 [] c = "3" -> 3 [] c = "4" -> 4
      [] c = "5" -> 5 [] c = "6" -> 6 [] c = "7" -> 7 [] c = "8" -> 8 [] c = "9" -> 9

\* a key that is an array index: "0", or digits that do not start with "0"
\* (up to 9 digits in the model)
IsIndexKey(k) ==
    /\ Len(k) \in 1..9
    /\ \A i \in 1..Len(k) : IsDigit(charAt(k, i))
    /\ Len(k) > 1 => charAt(k, 1) # "0"

RECURSIVE NumberOf(_)
NumberOf(k) ==
    IF k = "" THEN 0
    ELSE 10 * NumberOf(SubSeq(k, 1, Len(k) - 1)) + DigitValue(charAt(k, Len(k)))

\* the position a new key takes in the key order
insertAt(keys, k) ==
    IF IsIndexKey(k)
    THEN 1 + Cardinality({i \in 1..Len(keys) :
                            IsIndexKey(keys[i]) /\ NumberOf(keys[i]) < NumberOf(k)})
    ELSE Len(keys) + 1

\* obj[k] = value
setProperty(obj, k, value) ==
    IF k \in DOMAIN obj.v THEN [obj EXCEPT !.v = [@ EXCEPT ![k] = value]]
    ELSE [keys |-> SubSeq(obj.keys, 1, insertAt(obj.keys, k) - 1) \o <<k>>
                   \o SubSeq(obj.keys, insertAt(obj.keys, k), Len(obj.keys)),
          v |-> [x \in DOMAIN obj.v \cup {k} |-> IF x = k THEN value ELSE obj.v[x]]]

\* the ParsedCurl parseCurl starts from. data is "" while the program's data
\* is undefined: the program only tests whether data is truthy.
newParsedCurl ==
    [url |-> "", method |-> "GET", headers |-> EmptyObject, queryParams |-> EmptyObject,
     formData |-> EmptyObject, jsonBody |-> JNull, data |-> "", otherOptions |-> << >>]

\* the header branch: the token after -H, its quotes stripped, split at its
\* first colon when that colon is not its first character
withHeader(r, headerValue) ==
    IF IndexOf(headerValue, ":") > 1
    THEN [r EXCEPT !.headers =
            setProperty(@, LowerCase(Trim(SubSeq(headerValue, 1, IndexOf(headerValue, ":") - 1))),
                        Trim(SubSeq(headerValue, IndexOf(headerValue, ":") + 1,
                                    Len(headerValue))))]
    ELSE r

\* the loop over the tokens, from token i on
RECURSIVE parseTokens(_, _, _)
parseTokens(tokens, i, r) ==
    IF i > Len(tokens) THEN r
    ELSE IF tokens[i] = "curl" THEN parseTokens(tokens, i + 1, r)
    ELSE IF tokens[i] \in {"-X", "--request"} THEN
        IF i + 1 <= Len(tokens)
        THEN parseTokens(tokens, i + 2, [r EXCEPT !.method = removeQuotes(tokens[i + 1])])
        ELSE parseTokens(tokens, i + 1, r)
    ELSE IF tokens[i] \in {"-H", "--header"} THEN
        IF i + 1 <= Len(tokens)
        THEN parseTokens(tokens, i + 2, withHeader(r, stripQuotes(tokens[i + 1])))
        ELSE parseTokens(tokens, i + 1, r)
    ELSE IF tokens[i] \in {"-d", "--data", "--data-raw"} THEN
        IF i + 1 <= Len(tokens)
        THEN parseTokens(tokens, i + 2, [r EXCEPT !.data = stripQuotes(tokens[i + 1])])
        ELSE parseTokens(tokens, i + 1, r)
    ELSE IF StartsWith(tokens[i], "http://") \/ StartsWith(tokens[i], "https://") THEN
        parseTokens(tokens, i + 1, [r EXCEPT !.url = stripQuotes(tokens[i])])
    ELSE IF StartsWith(tokens[i], "-") THEN
        IF /\ i + 1 <= Len(tokens)
           /\ ~StartsWith(tokens[i + 1], "-")
           /\ ~StartsWith(tokens[i + 1], "http")
        THEN parseTokens(tokens, i + 2,
                         [r EXCEPT !.otherOptions = @ \o <<tokens[i], tokens[i + 1]>>])
        ELSE parseTokens(tokens, i + 1, [r EXCEPT !.otherOptions = Append(@, tokens[i])])
    ELSE IF r.url = "" /\ (Includes(tokens[i], ".") \/ Includes(tokens[i], "/")) THEN
        parseTokens(tokens, i + 1, [r EXCEPT !.url = stripQuotes(tokens[i])])
    ELSE parseTokens(tokens, i + 1, r)

\* ------------------------------------------------------- percent-encoding
HexDigits == <<"0", "1", "2", "3", "4", "5", "6", "7", "8", "9", "A", "B", "C", "D", "E", "F">>

IsHexDigit(c) == \E n \in 1..16 : LowerChar(c) = LowerChar(HexDigits[n])

HexValue(c) == (CHOOSE n \in 1..16 : LowerChar(c) = LowerChar(HexDigits[n])) - 1

\* s holds "%" and two hexadecimal digits at position i
IsEscapeAt(s, i) ==
    /\ i + 2 <= Len(s)
    /\ charAt(s, i) = "%"
    /\ IsHexDigit(charAt(s, i + 1))
    /\ IsHexDigit(charAt(s, i + 2))

\* the byte the escape at position i stands for
EscapedByte(s, i) == 16 * HexValue(charAt(s, i + 1)) + HexValue(charAt(s, i + 2))

\* decodeURIComponent from position i on: threw says a URIError was raised.
\* "%" without two hexadecimal digits is malformed. A byte above 7F is valid
\* only inside a UTF-8 sequence; the inputs of the model hold none, and the
\* model takes every such escape as malformed.
RECURSIVE decodeURIComponent(_, _)
decodeURIComponent(s, i) ==
    IF firstOf(s, i, "%") > Len(s) THEN [threw |-> FALSE, s |-> SubSeq(s, i, Len(s))]
    ELSE IF ~IsEscapeAt(s, firstOf(s, i, "%")) \/ EscapedByte(s, firstOf(s, i, "%")) > 127
         THEN [threw |-> TRUE, s |-> ""]
    ELSE [threw |-> decodeURIComponent(s, firstOf(s, i, "%") + 3).threw,
          s |-> SubSeq(s, i, firstOf(s, i, "%") - 1)
                \o AsciiChars[EscapedByte(s, firstOf(s, i, "%")) + 1]
                \o decodeURIComponent(s, firstOf(s, i, "%") + 3).s]

\* The percent-decoding of URLSearchParams, from position i on: it never
\* throws, a malformed escape stays as it is written. (An escaped byte above
\* 7F, which the inputs of the model do not hold, stays as written too.)
RECURSIVE percentDecode(_, _)
percentDecode(s, i) ==
    IF firstOf(s, i, "%") > Len(s) THEN SubSeq(s, i, Len(s))
    ELSE IF ~IsEscapeAt(s, firstOf(s, i, "%")) \/ EscapedByte(s, firstOf(s, i, "%")) > 127
         THEN SubSeq(s, i, firstOf(s, i, "%")) \o percentDecode(s, firstOf(s, i, "%") + 1)
    ELSE SubSeq(s, i, firstOf(s, i, "%") - 1)
         \o AsciiChars[EscapedByte(s, firstOf(s, i, "%")) + 1]
         \o percentDecode(s, firstOf(s, i, "%") + 3)

IsAlpha(c) == LowerChar(c) # c \/ c \in {"a", "b", "c", "d", "e", "f", "g", "h", "i", "j",
    "k", "l", "m", "n", "o", "p", "q", "r", "s", "t", "u", "v", "w", "x", "y", "z"}

\* the characters encodeURIComponent leaves as they are
IsUnreserved(c) ==
    IsAlpha(c) \/ IsDigit(c) \/ c \in {"-", "_", ".", "!", "~", "*", "'", "(", ")"}

CharCode(c) == (CHOOSE n \in 1..128 : AsciiChars[n] = c) - 1

encodeChar(c) ==
    IF IsUnreserved(c) THEN c
    ELSE "%" \o HexDigits[(CharCode(c) \div 16) + 1] \o HexDigits[(CharCode(c) % 16) + 1]

\* encodeURIComponent (on ASCII text)
encodeURIComponent(s) == mapChars(s, [c \in Ascii |-> encodeChar(c)])

\* ------------------------------------------------- query string, form body
\* String.prototype.split on a one-character separator, from position i on
RECURSIVE split(_, _, _)
split(s, i, sep) ==
    IF firstOf(s, i, sep) > Len(s) THEN <<SubSeq(s, i, Len(s))>>
    ELSE <<SubSeq(s, i, firstOf(s, i, sep) - 1)>> \o split(s, firstOf(s, i, sep) + 1, sep)

\* The URL parser of new URL(url), as far as parseQueryParams depends on it:
\* whether it accepts the text, and the query string it finds.
\*
\* the scheme: the text before the first ":" when it is a letter followed by
\* letters, digits, "+", "-" and "."; "" when there is none
urlScheme(url) ==
    IF /\ firstOf(url, 1, ":") <= Len(url)
       /\ firstOf(url, 1, ":") > 1
       /\ IsAlpha(charAt(url, 1))
       /\ \A i \in 2..(firstOf(url, 1, ":") - 1) :
             IsAlpha(charAt(url, i)) \/ IsDigit(charAt(url, i))
             \/ charAt(url, i) \in {"+", "-", "."}
    THEN LowerCase(SubSeq(url, 1, firstOf(url, 1, ":") - 1))
    ELSE ""

\* the first position from i on that ends the authority: "/", "\", "?" or "#"
authorityEnd(url, i) ==
    IF i > Len(url) THEN Len(url) + 1
    ELSE CHOOSE j \in i..(Len(url) + 1) :
             /\ j = Len(url) + 1 \/ (charAt(url, j) \in {"/", "\\", "?", "#"})
             /\ \A k \in i..(j - 1) : ~(charAt(url, k) \in {"/", "\\", "?", "#"})

\* the first position from i on that is no slash
firstNoSlash(url, i) ==
    IF i > Len(url) THEN Len(url) + 1
    ELSE CHOOSE j \in i..(Len(url) + 1) :
             /\ j = Len(url) + 1 \/ (charAt(url, j) \notin {"/", "\\"})
             /\ \A k \in i..(j - 1) : ~(charAt(url, k) \notin {"/", "\\"})

\* the code points a host must not hold
ForbiddenHostChars ==
    {" ", "#", "/", ":", "<", ">", "?", "@", "[", "\\", "]", "^", "|", "%", "\t", "\n"}

\* the host and port of an http or https URL are acceptable: credentials end
\* at the last "@", the host is not empty and holds no forbidden code point,
\* the port is at most 65535. (IPv4 and IPv6 literals and percent-encoded
\* hosts, which have rules of their own, are not among the inputs of the
\* model: the model rejects "[" and "%" and takes a numeric host as a name.)
hostIsValid(authority) ==
    LET ats == {j \in 1..Len(authority) : charAt(authority, j) = "@"}
        from == IF ats = {} THEN 1 ELSE (CHOOSE j \in ats : \A k \in ats : j >= k) + 1
        colon == firstOf(authority, from, ":")
        host == SubSeq(authority, from, colon - 1)
        port == SubSeq(authority, colon + 1, Len(authority))
    IN  /\ host # ""
        /\ \A j \in 1..Len(host) : charAt(host, j) \notin ForbiddenHostChars
        /\ \A j \in 1..Len(port) : IsDigit(charAt(port, j))
        /\ Len(port) <= 9
        /\ NumberOf(port) <= 65535

\* new URL(url) raises a TypeError: there is no scheme (and no base URL), or
\* the scheme is http or https (or ws, wss, ftp) and the host is not valid.
\* Leading and trailing spaces are dropped first.
urlThrows(url) ==
    LET u == Trim(url)
        scheme == urlScheme(u)
        start == firstNoSlash(u, Len(scheme) + 2)
    IN  \/ scheme = ""
        \/ /\ scheme \in {"http", "https", "ws", "wss", "ftp"}
           /\ ~hostIsValid(SubSeq(u, start, authorityEnd(u, start) - 1))

\* the query of the URL: the text after the first "?" and before the first
\* "#", "" when there is no "?" before the first "#"
urlQuery(url) ==
    LET u == Trim(url)
        hash == firstOf(u, 1, "#")
        mark == firstOf(u, 1, "?")
    IN  IF mark < hash THEN SubSeq(u, mark + 1, hash - 1) ELSE ""

\* "+" read as a space, then the percent-escapes decoded
decodeFormText(s) ==
    percentDecode(mapChars(s, [c \in Ascii |-> IF c = "+" THEN " " ELSE c]), 1)

\* urlObj.searchParams.forEach((value, key) => queryParams[key] = value),
\* from the i-th "&"-separated piece of the query on; an empty piece is no
\* parameter, a piece splits at its first "="
RECURSIVE searchParamsInto(_, _, _)
searchParamsInto(queryParams, pieces, i) ==
    IF i > Len(pieces) THEN queryParams
    ELSE IF pieces[i] = "" THEN searchParamsInto(queryParams, pieces, i + 1)
    ELSE searchParamsInto(
             setProperty(queryParams,
                 decodeFormText(SubSeq(pieces[i], 1, firstOf(pieces[i], 1, "=") - 1)),
                 decodeFormText(SubSeq(pieces[i], firstOf(pieces[i], 1, "=") + 1,
                                       Len(pieces[i])))),
             pieces, i + 1)

\* parseQueryParams(url): threw says new URL raised
parseQueryParams(url) ==
    IF urlThrows(url) THEN [threw |-> TRUE, obj |-> EmptyObject]
    ELSE [threw |-> FALSE,
          obj |-> searchParamsInto(EmptyObject, split(urlQuery(url), 1, "&"), 1)]

\* one pair of parseFormData: const [key, value] = pair.split('='), and the
\* write when key is not empty. acc is [threw, obj].
formPairInto(acc, parts) ==
    IF acc.threw \/ parts[1] = "" THEN acc
    ELSE IF decodeURIComponent(parts[1], 1).threw THEN [acc EXCEPT !.threw = TRUE]
    ELSE IF Len(parts) < 2 \/ parts[2] = ""
         THEN [acc EXCEPT !.obj = setProperty(@, decodeURIComponent(parts[1], 1).s, "")]
    ELSE IF decodeURIComponent(parts[2], 1).threw THEN [acc EXCEPT !.threw = TRUE]
    ELSE [acc EXCEPT !.obj = setProperty(@, decodeURIComponent(parts[1], 1).s,
                                         decodeURIComponent(parts[2], 1).s)]

RECURSIVE formPairsInto(_, _, _)
formPairsInto(acc, pairs, i) ==
    IF i > Len(pairs) THEN acc
    ELSE formPairsInto(formPairInto(acc, split(pairs[i], 1, "=")), pairs, i + 1)

\* parseFormData(data): threw says decodeURIComponent raised a URIError
parseFormData(data) ==
    IF data = "" THEN [threw |-> FALSE, obj |-> EmptyObject]
    ELSE formPairsInto([threw |-> FALSE, obj |-> EmptyObject], split(data, 1, "&"), 1)

\* ------------------------------------------------------------------- JSON
\* the position after a JSON number that starts at i, 0 when there is none:
\* an optional "-", then "0" or a digit string without a leading zero, then
\* an optional fraction. (Exponents are not among the inputs of the model.)
digitsEnd(s, i) ==
    IF i > Len(s) THEN Len(s) + 1
    ELSE CHOOSE j \in i..(Len(s) + 1) :
             /\ j = Len(s) + 1 \/ (~IsDigit(charAt(s, j)))
             /\ \A k \in i..(j - 1) : IsDigit(charAt(s, k))

jsonNumberEnd(s, i) ==
    LET from == IF charAt(s, i) = "-" THEN i + 1 ELSE i
        int == digitsEnd(s, from)
    IN  IF int = from \/ (charAt(s, from) = "0" /\ int > from + 1) THEN 0
        ELSE IF charAt(s, int) # "." THEN int
        ELSE IF digitsEnd(s, int + 1) = int + 1 THEN 0
        ELSE digitsEnd(s, int + 1)

\* the number -0, 0, 0.0, ...: the one falsy number JSON can write
IsZeroText(text) == \A j \in 1..Len(text) : charAt(text, j) \in {"-", "0", "."}

\* the character a backslash escape of a JSON string stands for, "" for an
\* escape the model does not read (\b, \f, \u....)
unescapeChar(c) ==
    CASE c \in {"\"", "\\", "/"} -> c
      [] c = "n" -> "\n"
      [] c = "t" -> "\t"
      [] c = "r" -> "\r"
      [] OTHER -> ""

\* the first position from i on that holds a double quote or a backslash
firstStringMark(s, i) ==
    IF i > Len(s) THEN Len(s) + 1
    ELSE CHOOSE j \in i..(Len(s) + 1) :
             /\ j = Len(s) + 1 \/ (charAt(s, j) \in {"\"", "\\"})
             /\ \A k \in i..(j - 1) : ~(charAt(s, k) \in {"\"", "\\"})

\* the rest of a JSON string whose opening quote is before i: [ok, text, next]
RECURSIVE jsonStringBody(_, _)
jsonStringBody(s, i) ==
    LET q == firstStringMark(s, i)
        rest == jsonStringBody(s, q + 2)
    IN  IF q > Len(s) \/ \E j \in i..(q - 1) : charAt(s, j) \in {"\n", "\t", "\r"}
        THEN [ok |-> FALSE, text |-> "", next |-> 0]
        ELSE IF charAt(s, q) = "\"" THEN [ok |-> TRUE, text |-> SubSeq(s, i, q - 1), next |-> q + 1]
        ELSE IF unescapeChar(charAt(s, q + 1)) = "" \/ ~rest.ok
        THEN [ok |-> FALSE, text |-> "", next |-> 0]
        ELSE [rest EXCEPT !.text = SubSeq(s, i, q - 1) \o unescapeChar(charAt(s, q + 1)) \o @]

JsonFail == [ok |-> FALSE, v |-> JNull, next |-> 0]

\* the JSON value that starts at i (white space skipped): [ok, v, next]
RECURSIVE jsonValue(_, _)
RECURSIVE jsonMembers(_, _, _)
RECURSIVE jsonElements(_, _, _)
jsonValue(s, i) ==
    LET at == firstInk(s, i)
        c == charAt(s, at)
    IN  CASE c = "{" ->
                IF charAt(s, firstInk(s, at + 1)) = "}"
                THEN [ok |-> TRUE, v |-> JObj(NoFields), next |-> firstInk(s, at + 1) + 1]
                ELSE jsonMembers(s, at + 1, NoFields)
          [] c = "[" ->
                IF charAt(s, firstInk(s, at + 1)) = "]"
                THEN [ok |-> TRUE, v |-> JArr(<< >>), next |-> firstInk(s, at + 1) + 1]
                ELSE jsonElements(s, at + 1, << >>)
          [] c = "\"" ->
                LET str == jsonStringBody(s, at + 1)
                IN  IF str.ok
                    THEN [ok |-> TRUE, v |-> JPrim("'" \o str.text \o "'"), next |-> str.next]
                    ELSE JsonFail
          [] Slice(s, at, at + 3) = "true" -> [ok |-> TRUE, v |-> JPrim("true"), next |-> at + 4]
          [] Slice(s, at, at + 3) = "null" -> [ok |-> TRUE, v |-> JNull, next |-> at + 4]
          [] Slice(s, at, at + 4) = "false" -> [ok |-> TRUE, v |-> JPrim("false"), next |-> at + 5]
          [] OTHER ->
                LET end == jsonNumberEnd(s, at)
                IN  IF at > Len(s) \/ end = 0 THEN JsonFail
                    ELSE [ok |-> TRUE, next |-> end,
                          v |-> JPrim(IF IsZeroText(SubSeq(s, at, end - 1)) THEN "0"
                                      ELSE SubSeq(s, at, end - 1))]

\* the members of an object from i on, after "{" or ","; a repeated key
\* keeps its last value
jsonMembers(s, i, fields) ==
    LET at == firstInk(s, i)
        key == jsonStringBody(s, at + 1)
        colon == firstInk(s, key.next)
        val == jsonValue(s, colon + 1)
        after == firstInk(s, val.next)
        now == [k \in (DOMAIN fields) \cup {key.text} |->
                   IF k = key.text THEN val.v ELSE fields[k]]
    IN  IF charAt(s, at) # "\"" \/ ~key.ok THEN JsonFail
        ELSE IF charAt(s, colon) # ":" \/ ~val.ok THEN JsonFail
        ELSE IF charAt(s, after) = "}" THEN [ok |-> TRUE, v |-> JObj(now), next |-> after + 1]
        ELSE IF charAt(s, after) = "," THEN jsonMembers(s, after + 1, now)
        ELSE JsonFail

\* the elements of an array from i on, after "[" or ","
jsonElements(s, i, elems) ==
    LET val == jsonValue(s, i)
        after == firstInk(s, val.next)
    IN  IF ~val.ok THEN JsonFail
        ELSE IF charAt(s, after) = "]"
        THEN [ok |-> TRUE, v |-> JArr(Append(elems, val.v)), next |-> after + 1]
        ELSE IF charAt(s, after) = "," THEN jsonElements(s, after + 1, Append(elems, val.v))
        ELSE JsonFail

\* JSON.parse(text): threw says it raised a SyntaxError
JSONparse(text) ==
    LET r == jsonValue(text, 1)
    IN  IF r.ok /\ firstInk(text, r.next) > Len(text)
        THEN [threw |-> FALSE, v |-> r.v]
        ELSE [threw |-> TRUE, v |-> JNull]

\* parseJsonBody(data): the parsed value, null when JSON.parse raised
parseJsonBody(data) == JSONparse(data).v

\* a string written as JSON text
escapeChar(c) ==
    CASE c = "\"" -> "\\\""
      [] c = "\\" -> "\\\\"
      [] c = "\n" -> "\\n"
      [] c = "\t" -> "\\t"
      [] c = "\r" -> "\\r"
      [] OTHER -> c

quoteJson(text) == "\"" \o mapChars(text, [c \in Ascii |-> escapeChar(c)]) \o "\""

\* the elements of a set one after another, in an order that is fixed but
\* stands for no order of the program
RECURSIVE SetToSeq(_)
SetToSeq(S) ==
    IF S = {} THEN << >>
    ELSE LET x == CHOOSE y \in S : TRUE IN <<x>> \o SetToSeq(S \ {x})

\* the texts of a sequence joined by commas
RECURSIVE joinComma(_, _)
joinComma(texts, i) ==
    IF i > Len(texts) THEN ""
    ELSE IF i = Len(texts) THEN texts[i]
    ELSE texts[i] \o "," \o joinComma(texts, i + 1)

\* JSON.stringify(j). A string primitive is held between single quotes in p;
\* a number is written as it was read; a hole of an array is written null.
\* The members of an object come in the order of SetToSeq: the model of a
\* JSON object keeps no insertion order.
RECURSIVE JSONstringify(_)
JSONstringify(j) ==
    CASE j.t = "obj" ->
            "{" \o joinComma([i \in 1..Cardinality(DOMAIN j.v) |->
                      quoteJson(SetToSeq(DOMAIN j.v)[i]) \o ":"
                      \o JSONstringify(j.v[SetToSeq(DOMAIN j.v)[i]])], 1) \o "}"
      [] j.t = "arr" ->
            "[" \o joinComma([i \in 1..j.n |->
                      IF DecimalOf(i - 1) \in DOMAIN j.v
                      THEN JSONstringify(j.v[DecimalOf(i - 1)]) ELSE "null"], 1) \o "]"
      [] charAt(j.p, 1) = "'" -> quoteJson(SubSeq(j.p, 2, Len(j.p) - 1))
      [] OTHER -> j.p

\* --------------------------------------------------- parseCurl, buildCurl
\* result.queryParams = parseQueryParams(result.url) inside try/catch, when
\* a URL was found
withQueryParams(r) ==
    IF r.url = "" \/ parseQueryParams(r.url).threw THEN r
    ELSE [r EXCEPT !.queryParams = parseQueryParams(r.url).obj]

\* result.headers['content-type'] || ''
contentTypeOf(r) ==
    IF "content-type" \in DOMAIN r.headers.v THEN r.headers.v["content-type"] ELSE ""

\* result.formData = parseFormData(result.data), which may raise
withFormData(r) ==
    [threw |-> parseFormData(r.data).threw,
     r |-> [r EXCEPT !.formData = parseFormData(r.data).obj]]

\* the body of the request, read as the Content-Type header says, or as JSON
\* and then as a form when the header says neither
withBody(r) ==
    IF r.data = "" THEN [threw |-> FALSE, r |-> r]
    ELSE IF Includes(contentTypeOf(r), "application/json")
         THEN [threw |-> FALSE, r |-> [r EXCEPT !.jsonBody = parseJsonBody(r.data)]]
    ELSE IF Includes(contentTypeOf(r), "application/x-www-form-urlencoded")
         THEN withFormData(r)
    ELSE IF parseJsonBody(r.data) # JNull
         THEN [threw |-> FALSE, r |-> [r EXCEPT !.jsonBody = parseJsonBody(r.data)]]
    ELSE withFormData(r)

\* parseCurl(curlCommand): threw says an exception left the function, r is
\* the ParsedCurl it returns otherwise
parseCurl(curlCommand) ==
    withBody(withQueryParams(parseTokens(tokensOf(curlCommand), 1, newParsedCurl)))

\* Object.entries(headers).forEach: ' -H "key: value"' for each, from i on
RECURSIVE headerArgs(_, _)
headerArgs(headers, i) ==
    IF i > Len(headers.keys) THEN ""
    ELSE " -H \"" \o headers.keys[i] \o ": " \o headers.v[headers.keys[i]] \o "\""
         \o headerArgs(headers, i + 1)

\* the entries of an object as key=value, both percent-encoded, joined by "&"
RECURSIVE formEncode(_, _)
formEncode(obj, i) ==
    IF i > Len(obj.keys) THEN ""
    ELSE encodeURIComponent(obj.keys[i]) \o "=" \o encodeURIComponent(obj.v[obj.keys[i]])
         \o (IF i < Len(obj.keys) THEN "&" ELSE "") \o formEncode(obj, i + 1)

\* the options buildCurl keeps
IsSafeOption(opt) ==
    ~Includes(opt, "user-agent") /\ ~Includes(opt, "referer") /\ ~Includes(opt, "origin")

\* safeOptions.join(' ') with a space before it
RECURSIVE optionArgs(_, _)
optionArgs(options, i) ==
    IF i > Len(options) THEN ""
    ELSE " " \o options[i] \o optionArgs(options, i + 1)

\* buildCurl(parsed, filteredHeaders)
buildCurl(parsed, filteredHeaders) ==
    "curl"
    \o (IF parsed.method # "GET" THEN " -X " \o parsed.method ELSE "")
    \o headerArgs(filteredHeaders, 1)
    \o (IF parsed.data # "" THEN " -d \"" \o parsed.data \o "\"" ELSE "")
    \o optionArgs(SelectSeq(parsed.otherOptions, IsSafeOption), 1)
    \o " \"" \o parsed.url \o "\""

\* Object.keys(j).length of a JSON value: the members of an object, the
\* elements of an array, the characters of a string, nothing otherwise
ObjectKeysLength(j) ==
    CASE j.t \in {"obj", "arr"} -> Cardinality(DOMAIN j.v)
      [] charAt(j.p, 1) = "'" -> Len(j.p) - 2
      [] OTHER -> 0

\* the URL buildCurlFromContext writes: parsed.url and, when there are query
\* parameters, "?" or "&" and their encoding
urlFromContext(parsed) ==
    IF formEncode(parsed.queryParams, 1) = "" THEN parsed.url
    ELSE parsed.url \o (IF Includes(parsed.url, "?") THEN "&" ELSE "?")
         \o formEncode(parsed.queryParams, 1)

\* the -d argument buildCurlFromContext writes
bodyFromContext(parsed) ==
    IF Truthy(parsed.jsonBody) /\ ObjectKeysLength(parsed.jsonBody) > 0
    THEN " -d '" \o JSONstringify(parsed.jsonBody) \o "'"
    ELSE IF Len(parsed.formData.keys) > 0
    THEN " -d \"" \o formEncode(parsed.formData, 1) \o "\""
    ELSE IF parsed.data # "" THEN " -d \"" \o parsed.data \o "\""
    ELSE ""

\* CurlFilter.buildCurlFromContext(parsed)
buildCurlFromContext(parsed) ==
    "curl"
    \o (IF parsed.method # "GET" THEN " -X " \o parsed.method ELSE "")
    \o headerArgs(parsed.headers, 1)
    \o bodyFromContext(parsed)
    \o " \"" \o urlFromContext(parsed) \o "\""

\* ------------------------------------------------------------- CurlFilter
\* the FilterContext handleFilter builds from a ParsedCurl
contextOf(parsed) ==
    [headers |-> parsed.headers.v, queryParams |-> parsed.queryParams.v,
     formData |-> parsed.formData.v, jsonBody |-> parsed.jsonBody,
     url |-> parsed.url, method |-> parsed.method]

\* a collection of the FilterResult as an object with its keys in order:
\* the keys it has left, in the order the parsed request had them
orderedAs(fields, obj) ==
    [keys |-> SelectSeq(obj.keys, LAMBDA k : k \in DOMAIN fields), v |-> fields]

\* { ...parsed, headers: result.headers, queryParams: result.queryParams,
\*   formData: result.formData, jsonBody: result.jsonBody }
filteredParsed(parsed, filterResult) ==
    [parsed EXCEPT !.headers = orderedAs(filterResult.headers, parsed.headers),
                   !.queryParams = orderedAs(filterResult.queryParams, parsed.queryParams),
                   !.formData = orderedAs(filterResult.formData, parsed.formData),
                   !.jsonBody = filterResult.jsonBody]

\* --------------------------------------------------------- rule validator
\* A rule handed to the validator is a Partial<FilterRule>: absent names the
\* properties that are undefined.
Has(rule, property) == property \notin rule.absent

PriorityMin == 0
PriorityMax == 100
MaxNameLength == 50

\* isValidPriority(priority)
isValidPriority(priority) == priority \in PriorityMin..PriorityMax

\* the check of one required property that has a set of valid values
requiredErrors(rule, property, value, valid, missing, invalid) ==
    IF ~Has(rule, property) \/ value = "" THEN <<missing>>
    ELSE IF value \notin valid THEN <<invalid>>
    ELSE << >>

priorityErrors(rule) ==
    IF ~Has(rule, "priority") THEN <<"priorityRequired">>
    ELSE IF ~isValidPriority(rule.priority) THEN <<"priorityRange">>
    ELSE << >>

needsMatchValue(rule) == rule.action \in {"delete", "keep"}

\* rule.matchValue && rule.matchValue.trim() !== ''
hasMatchValue(rule) == rule.matchValue # "" /\ Trim(rule.matchValue) # ""

\* the match value is looked at when the rule has an action and its
\* matchValue is not undefined
matchValueIsChecked(rule) ==
    Has(rule, "action") /\ rule.action # "" /\ Has(rule, "matchValue")

matchValueErrors(rule) ==
    IF matchValueIsChecked(rule) /\ needsMatchValue(rule) /\ ~hasMatchValue(rule)
    THEN <<"matchValueRequired">> ELSE << >>

matchValueWarnings(rule) ==
    IF matchValueIsChecked(rule) /\ ~needsMatchValue(rule) /\ hasMatchValue(rule)
    THEN <<"matchValueIgnored">> ELSE << >>

regexErrors(rule) ==
    IF /\ Has(rule, "matchMode") /\ rule.matchMode = "regex"
       /\ Has(rule, "matchValue") /\ rule.matchValue # ""
       /\ ~RegExpCompiles(CharsOf(rule.matchValue))
    THEN <<"invalidRegex">> ELSE << >>

\* the errors validateRule collects, in its order
ruleErrorsOf(rule) ==
    (IF ~Has(rule, "name") \/ Trim(rule.name) = "" THEN <<"nameRequired">> ELSE << >>)
    \o requiredErrors(rule, "action", rule.action, FilterAction, "actionRequired", "invalidAction")
    \o requiredErrors(rule, "target", rule.target, FilterTarget, "targetRequired", "invalidTarget")
    \o requiredErrors(rule, "matchMode", rule.matchMode, MatchMode,
                      "matchModeRequired", "invalidMatchMode")
    \o priorityErrors(rule)
    \o matchValueErrors(rule)
    \o regexErrors(rule)

\* the warnings validateRule collects (a rule of the model has no
\* description)
ruleWarningsOf(rule) ==
    matchValueWarnings(rule)
    \o (IF Has(rule, "name") /\ Len(rule.name) > MaxNameLength THEN <<"nameTooLong">> ELSE << >>)

\* validateRule(rule)
validateRule(rule) ==
    [isValid |-> ruleErrorsOf(rule) = << >>,
     errors |-> ruleErrorsOf(rule),
     warnings |-> ruleWarningsOf(rule)]

\* no ID is ever taken for a duplicate
duplicateIdsOf_none(rs, i) == << >>

\* duplicateIds after the first i - 1 rules: the IDs met a second time, in
\* the order a Set keeps them
RECURSIVE duplicateIdsOf(_, _)
duplicateIdsOf(rs, i) ==
    IF i = 0 THEN << >>
    ELSE IF /\ \E j \in 1..(i - 1) : rs[j].id = rs[i].id
            /\ \A n \in 1..Len(duplicateIdsOf(rs, i - 1)) :
                  duplicateIdsOf(rs, i - 1)[n] # rs[i].id
         THEN Append(duplicateIdsOf(rs, i - 1), rs[i].id)
    ELSE duplicateIdsOf(rs, i - 1)

\* the entries validateRules pushes for the rules themselves, from rule i on;
\* which is "errors" or "warnings"
RECURSIVE ruleEntries(_, _, _)
ruleEntries(rs, i, which) ==
    IF i > Len(rs) THEN << >>
    ELSE (IF validateRule(rs[i])[which] # << >>
          THEN <<[kind |-> "rule", index |-> i, messages |-> validateRule(rs[i])[which],
                  ids |-> << >>, target |-> "", count |-> 0, name |-> ""]>>
          ELSE << >>)
         \o ruleEntries(rs, i + 1, which)

\* the entry that reports the duplicated IDs
duplicateEntries(ids) ==
    IF ids = << >> THEN << >>
    ELSE <<[kind |-> "duplicateIds", index |-> 0, messages |-> << >>, ids |-> ids,
            target |-> "", count |-> 0, name |-> ""]>>

\* the targets of the rules in the order a Map meets them first
RECURSIVE targetsOf(_, _)
targetsOf(rs, i) ==
    IF i = 0 THEN << >>
    ELSE IF \E j \in 1..(i - 1) : rs[j].target = rs[i].target THEN targetsOf(rs, i - 1)
    ELSE Append(targetsOf(rs, i - 1), rs[i].target)

conflict(kind, target, count, name) ==
    [kind |-> kind, index |-> 0, messages |-> << >>, ids |-> << >>,
     target |-> target, count |-> count, name |-> name]

withAction(rs, actions) == LET Among(r) == r.action \in actions IN SelectSeq(rs, Among)

\* the specific rules whose priority is at or below that of the global rule
affectedSpecific(specificRules, highestGlobal) ==
    LET Affected(r) == r.priority <= highestGlobal.priority IN SelectSeq(specificRules, Affected)

\* the warnings of detectRuleConflicts for one target, sortedRules being its
\* enabled rules by descending priority
targetConflicts(target, sortedRules) ==
    LET deleteAllRules == withAction(sortedRules, {"delete_all"})
        keepAllRules == withAction(sortedRules, {"keep_all"})
        globalRules == withAction(sortedRules, {"delete_all", "keep_all"})
        specificRules == withAction(sortedRules, {"delete", "keep"})
    IN  (IF Len(deleteAllRules) > 1 THEN <<conflict("manyDeleteAll", target, 0, "")>> ELSE << >>)
        \o (IF Len(keepAllRules) > 1 THEN <<conflict("manyKeepAll", target, 0, "")>> ELSE << >>)
        \o (IF Len(deleteAllRules) > 0 /\ Len(keepAllRules) > 0
            THEN <<conflict(IF deleteAllRules[1].priority > keepAllRules[1].priority
                            THEN "deleteAllWins"
                            ELSE IF keepAllRules[1].priority > deleteAllRules[1].priority
                            THEN "keepAllWins" ELSE "samePriority", target, 0, "")>>
            ELSE << >>)
        \o (IF /\ Len(globalRules) > 0
               /\ Len(specificRules) > 0
               /\ Len(affectedSpecific(specificRules, globalRules[1])) > 0
            THEN <<conflict("shadowed", target,
                            Len(affectedSpecific(specificRules, globalRules[1])),
                            globalRules[1].name)>>
            ELSE << >>)

RECURSIVE conflictsOn(_, _, _)
conflictsOn(enabledRules, targets, i) ==
    IF i > Len(targets) THEN << >>
    ELSE targetConflicts(targets[i],
                         SortRules(groupRulesByTarget(enabledRules, targets[i]), << >>))
         \o conflictsOn(enabledRules, targets, i + 1)

\* detectRuleConflicts(rules)
detectRuleConflicts(rs) ==
    LET Enabled(r) == r.enabled
    IN  conflictsOn(SelectSeq(rs, Enabled),
                    targetsOf(SelectSeq(rs, Enabled), Len(SelectSeq(rs, Enabled))), 1)

\* validateRules(rules)
validateRules(rs) ==
    [isValid |-> ruleEntries(rs, 1, "errors") = << >> /\ duplicateIdsOf(rs, Len(rs)) = << >>,
     errors |-> ruleEntries(rs, 1, "errors") \o duplicateEntries(duplicateIdsOf(rs, Len(rs))),
     warnings |-> ruleEntries(rs, 1, "warnings") \o detectRuleConflicts(rs)]

\* ------------------------------------------------------------ importConfig
\* the value of a property that is not there
JUndefined == JPrim("undefined")

\* j[k] of a parsed JSON value
prop(j, k) == IF j.t \in {"obj", "arr"} /\ k \in DOMAIN j.v THEN j.v[k] ELSE JUndefined

\* !j
Falsy(j) == j = JUndefined \/ ~Truthy(j)

\* j === undefined || j === null
Nullish(j) == j \in {JUndefined, JNull}

IsStringValue(j) == j.t = "prim" /\ charAt(j.p, 1) = "'"

\* a value as the text the validator compares: a string's characters, and
\* for what is no string a text that is none of the valid values
textOf(j) ==
    IF IsStringValue(j) THEN Slice(j.p, 2, Len(j.p) - 1)
    ELSE IF j.t = "prim" THEN j.p
    ELSE "[object]"

DefaultPriority == 50

\* a priority that isValidPriority rejects: the model's stand-in for every
\* value that is no integer in the range
InvalidPriority == 0 - 1

\* rule.priority ?? 50
priorityOf(j) ==
    IF Nullish(j) THEN DefaultPriority
    ELSE IF /\ j.t = "prim" /\ Len(j.p) \in 1..9
            /\ \A n \in 1..Len(j.p) : IsDigit(charAt(j.p, n))
         THEN NumberOf(j.p)
    ELSE InvalidPriority

\* a required property copied as it is: "" when it is there but falsy
copied(j) == IF Falsy(j) THEN "" ELSE textOf(j)

\* the properties among action, target and matchMode that the rule lacks
absentIn(rule) == {k \in {"action", "target", "matchMode"} : prop(rule, k) = JUndefined}

\* one rule of importData.rules.map: the FilterRule made of the element at
\* index (counted from 0) at the time now
importedRule(rule, index, now) ==
    [id |-> "imported_" \o DecimalOf(now) \o "_" \o DecimalOf(index),
     name |-> IF Falsy(prop(rule, "name")) THEN "imported rule " \o DecimalOf(index + 1)
              ELSE textOf(prop(rule, "name")),
     action |-> copied(prop(rule, "action")),
     target |-> copied(prop(rule, "target")),
     matchMode |-> copied(prop(rule, "matchMode")),
     matchValue |-> IF Falsy(prop(rule, "matchValue")) THEN ""
                    ELSE textOf(prop(rule, "matchValue")),
     priority |-> priorityOf(prop(rule, "priority")),
     enabled |-> IF Nullish(prop(rule, "enabled")) THEN TRUE ELSE Truthy(prop(rule, "enabled")),
     absent |-> absentIn(rule)]

importedRules(list, now) ==
    [i \in 1..list.n |-> importedRule(prop(list, DecimalOf(i - 1)), i - 1, now)]

CONFIG_VERSION == "1.0.0"

importFailure(error) == [success |-> FALSE, error |-> error, config |-> [null |-> TRUE]]

\* the StoredConfig importConfig makes of validated rules (of the settings
\* it carries what the document gave, the defaults left out)
importedConfigOf(rs, importData) ==
    [success |-> TRUE, error |-> "",
     config |-> [version |-> CONFIG_VERSION,
                 rules |-> rs,
                 settings |-> IF prop(importData, "settings").t = "obj"
                              THEN prop(importData, "settings") ELSE JObj(NoFields)]]

\* importConfig once the rules are mapped
importValidated(rs, importData) ==
    IF validateRules(rs).isValid THEN importedConfigOf(rs, importData)
    ELSE importFailure("invalidRules")

\* importConfig once JSON.parse has returned: reading a property of null, the
\* document's or a rule's, raises a TypeError that the catch turns into a
\* failure
importParsed(importData, now) ==
    IF importData = JNull THEN importFailure("parseFailed")
    ELSE IF Falsy(prop(importData, "rules")) \/ prop(importData, "rules").t # "arr"
         THEN importFailure("noRulesArray")
    ELSE IF \E k \in DOMAIN prop(importData, "rules").v : prop(importData, "rules").v[k] = JNull
         THEN importFailure("parseFailed")
    ELSE importValidated(importedRules(prop(importData, "rules"), now), importData)

\* what both importConfig functions return for a document, leaving the
\* storage aside
importOutcome(jsonData, now) ==
    IF JSONparse(jsonData).threw THEN importFailure("parseFailed")
    ELSE importParsed(JSONparse(jsonData).v, now)

\* the elements of a sequence
Range(seq) == {seq[i] : i \in 1..Len(seq)}

\* rulesStore.put(rule) for each rule: a rule takes the place of the stored
\* rule with its id
putRules(stored, rs) ==
    {r \in stored : \A i \in 1..Len(rs) : rs[i].id # r.id}
        \cup {rs[i] : i \in {n \in 1..Len(rs) : \A m \in (n + 1)..Len(rs) : rs[m].id # rs[n].id}}

\* the rules store after clearRules and saveRules, each of which either
\* takes effect or fails and reports false
rulesAfterImport(stored, rs, cleared, saved) ==
    IF saved THEN putRules(IF cleared THEN {} ELSE stored, rs)
    ELSE IF cleared THEN {} ELSE stored

\* --------------------------------------------------------- storage managers
\* the configuration store before anything was saved
NoConfig == [null |-> TRUE]

\* DEFAULT_SETTINGS; the model carries the settings of a configuration as
\* one value
DEFAULT_SETTINGS == "DEFAULT_SETTINGS"

\* createDefaultConfig(): the model leaves lastModified out of a
\* configuration
createDefaultConfig == [version |-> CONFIG_VERSION, rules |-> << >>, settings |-> DEFAULT_SETTINGS]

\* IndexedDBStorageManager.saveRules(rules): one transaction that puts every
\* rule of the array; ok says whether the transaction completed
saveRulesInto(stored, rs, ok) == IF ok THEN putRules(stored, rs) ELSE stored

\* the keys of the rules store in the order of the store
RuleKeys == <<"r1", "r2", "r3">>

\* IndexedDBStorageManager.loadRules(): getAll() gives the stored rules in
\* the order of their keys
RECURSIVE loadRulesFrom(_, _)
loadRulesFrom(stored, k) ==
    IF k > Len(RuleKeys) THEN << >>
    ELSE SetToSeq({r \in stored : r.id = RuleKeys[k]}) \o loadRulesFrom(stored, k + 1)

loadRules(stored) == loadRulesFrom(stored, 1)

\* the backups kept: createBackup deletes from the eleventh on
MaxBackups == 10

\* backups.sort(by timestamp, descending) of the backup store
RECURSIVE newestFirst(_)
newestFirst(store) ==
    IF store = {} THEN << >>
    ELSE LET top == CHOOSE b \in store : \A o \in store : o.timestamp <= b.timestamp
         IN  <<top>> \o newestFirst(store \ {top})

\* IndexedDBStorageManager.getBackups()
getBackups(store) == newestFirst(store)

\* backupStore.put(newBackup): the store is keyed by the timestamp
putBackup(store, backup) == {b \in store : b.timestamp # backup.timestamp} \cup {backup}

\* the timestamps of backups.slice(10), backups being the list read before
\* the new backup was put
oldBackupKeys(backups) == {backups[n].timestamp : n \in (MaxBackups + 1)..Len(backups)}

\* IndexedDBStorageManager.createBackup(config) at the time now
createBackup(store, config, now) ==
    IF Len(getBackups(store)) >= MaxBackups
    THEN {b \in putBackup(store, [timestamp |-> now, config |-> config]) :
             b.timestamp \notin oldBackupKeys(getBackups(store))}
    ELSE putBackup(store, [timestamp |-> now, config |-> config])

\* a null among the elements of a stored rule array
NullRule == [null |-> TRUE]

\* validateRules(rules) raises a TypeError: rules.forEach reads rule.id of
\* every element
validateRulesThrows(rs) == \E i \in 1..Len(rs) : rs[i] = NullRule

\* loadFromBackup(), from the i-th backup of the list on: the first backup
\* whose rules pass validateRules, NoConfig for null; an exception ends the
\* search with null
RECURSIVE firstValidBackup(_, _)
firstValidBackup(backups, i) ==
    IF i > Len(backups) THEN NoConfig
    ELSE IF validateRulesThrows(backups[i].config.rules) THEN NoConfig
    ELSE IF validateRules(backups[i].config.rules).isValid THEN backups[i].config
    ELSE firstValidBackup(backups, i + 1)

loadFromBackup(backups) == firstValidBackup(backups, 1)

\* this.loadFromBackup() || this.createDefaultConfig()
backupOrDefault(restored) == IF restored = NoConfig THEN createDefaultConfig ELSE restored

\* an exception leaving a function
Thrown == [thrown |-> TRUE]

\* the try block of loadConfig() of either manager: stored is what the
\* configuration store holds, readable says whether reading it gave a value
\* (no failed request, no text that JSON.parse rejects), backups is the list
\* getBackups() gives
readConfig(stored, readable, backups) ==
    IF ~readable THEN Thrown
    ELSE IF stored = NoConfig THEN createDefaultConfig
    ELSE IF stored.version # CONFIG_VERSION THEN createDefaultConfig
    ELSE IF validateRulesThrows(stored.rules) THEN Thrown
    ELSE IF ~validateRules(stored.rules).isValid THEN backupOrDefault(loadFromBackup(backups))
    ELSE stored

\* loadConfig() without its catch block
loadConfig_noCatch(stored, readable, backups) == readConfig(stored, readable, backups)

\* loadConfig() of either manager: the catch block restores from the backups
loadConfig(stored, readable, backups) ==
    IF readConfig(stored, readable, backups) = Thrown
    THEN backupOrDefault(loadFromBackup(backups))
    ELSE readConfig(stored, readable, backups)

\* newConfig of saveRules: the configuration read, with the rules of the call
newConfig(currentConfig, rs) ==
    [version |-> currentConfig.version, rules |-> rs, settings |-> currentConfig.settings]

\* RuleStorageManager.createBackup(config) at the time now: the new backup
\* goes to the front of the list and the first ten are kept
createLocalBackup(backups, config, now) ==
    SubSeq(<<[timestamp |-> now, config |-> config]>> \o backups, 1,
           IF Len(backups) + 1 > MaxBackups THEN MaxBackups ELSE Len(backups) + 1)

\* newConfig of the function saveRules of ruleStorage: the configuration
\* loadConfig() gives, with the rules of the call
localNewConfig(stored, backups, rs) == newConfig(loadConfig(stored, TRUE, backups), rs)

\* ------------------------------------------------------------- RuleManager
\* rules.filter(rule => rule.id !== ruleId)
withoutRule(rs, ruleId) ==
    LET Other(r) == r.id # ruleId
    IN  SelectSeq(rs, Other)

\* rules.map(rule => rule.id === ruleId ? { ...rule, enabled: !rule.enabled } : rule)
withToggled(rs, ruleId) ==
    [i \in 1..Len(rs) |-> IF rs[i].id = ruleId THEN [rs[i] EXCEPT !.enabled = ~@] ELSE rs[i]]

\* newRules of handleSaveRule: the rule takes the place of the rule with its
\* id, or comes last
withSaved(rs, rule) ==
    IF \E i \in 1..Len(rs) : rs[i].id = rule.id
    THEN [i \in 1..Len(rs) |-> IF rs[i].id = rule.id THEN rule ELSE rs[i]]
    ELSE Append(rs, rule)

\* what saveRulesToStorage leaves in the rule list: setRules(newRules) runs
\* when saveRules reported true
rulesAfterSave_always(current, newRules, outcome) == newRules

rulesAfterSave(current, newRules, outcome) ==
    IF outcome = "true" THEN newRules ELSE current

\* the notification saveRulesToStorage shows
notificationAfterSave(outcome) == IF outcome = "true" THEN "saveSuccess" ELSE "saveFailed"

\* -------------------------------------------------- StorageMigrationManager
\* migrateMainConfig: the rules that go to IndexedDB; when the array does
\* not pass validateRules, the rules that pass on their own
migratedRulesOf(rs) ==
    LET PassesAlone(r) == validateRules(<<r>>).isValid
    IN  IF validateRules(rs).isValid THEN rs ELSE SelectSeq(rs, PassesAlone)

\* migrateMainConfig: the configuration that goes to IndexedDB
migratedConfigOf(config) ==
    [version |-> CONFIG_VERSION, rules |-> migratedRulesOf(config.rules),
     settings |-> config.settings]

\* checkMigrationStatus().isRequired; read says whether the status could be
\* read
isRequired(read, config, backups, flag) ==
    read /\ (config # NoConfig \/ backups # << >>) /\ ~flag

\* performMigration marks every run as completed
flagAfterMigration_always(flag, success) == TRUE

\* if (result.success) localStorage.setItem('curl-filter-migration-completed', 'true')
flagAfterMigration(flag, success) == IF success THEN TRUE ELSE flag

\* ---------------------------------------------------- debounced auto-filter
\* the delay of the debounce timer in milliseconds
DebounceDelay == 800

\* window.clearTimeout(debounceTimerRef.current): a timer that fired or was
\* cleared before is not among the pending ones
clearTimeout(pending, ref) == pending \ {ref}

\* window.setTimeout(callback, 800) at the time at: the callback holds the
\* text of the call and whether a rule of the rules it saw is enabled
newTimer(curlText, rs, at) ==
    [text |-> curlText,
     enabled |-> \E i \in 1..Len(rs) : rs[i].enabled,
     due |-> at + DebounceDelay]

\* autoFilter without clearing the timer before
autoFilter_keepPending(pending, ref, curlText, rs, at) ==
    pending \cup {newTimer(curlText, rs, at)}

\* autoFilter(curlText): the pending timers after it
autoFilter(pending, ref, curlText, rs, at) ==
    clearTimeout(pending, ref) \cup {newTimer(curlText, rs, at)}

\* the condition of the timer's callback
timerFilters(timer) ==
    /\ Trim(timer.text) # ""
    /\ timer.enabled
    /\ StartsWith(LowerCase(Trim(timer.text)), "curl")

\* ------------------------------------------------------------ state machine
VARIABLES
    given,    \* the rule array as the caller handed it to setRules
    rules,    \* FilterEngine.rules: that same array object as it now stands
    input,    \* the FilterContext as the caller built it
    ctx,      \* that same context object as it stands after the calls
    result,   \* the FilterResult of the last applyFilters call
    prev,     \* the FilterResult of the call before it, on the same inputs
    calls,    \* applyFilters calls made on (rules, input), up to MaxCalls
    threw,    \* the last applyFilters call raised an exception
    inputCurl,     \* CurlFilter: the text of the input box
    outputCurl,    \* CurlFilter: the rebuilt command shown
    error,         \* CurlFilter: the error message shown, "" for none
    filterResult,  \* CurlFilter: the FilterResult shown, NoResult for null
    command,       \* the command first handed to parseCurl
    parses,        \* what parseCurl returned for the command and for each build
    builds,        \* what buildCurl returned for each of them
    draft,         \* the rule array being put together for the validator
    validation,    \* what validateRules returned for it, NoValidation before
    storedRules,   \* the rules store of the storage manager
    storedConfig,  \* the configuration store of the storage manager
    localConfig,   \* the configuration RuleStorageManager keeps in localStorage
    importResult,  \* what importConfig returned last
    clock,         \* Date.now() at the next import, the time of the next save
    lastSaved,     \* the argument of the last manager.saveRules that completed
    savers,        \* the calls of the function saveRules that are under way
    returned,      \* the calls of saveRules that ended: what each was given and returned
    idbBackups,    \* the backup store of IndexedDBStorageManager
    localBackups,  \* the backup list RuleStorageManager keeps in localStorage
    configSaves,   \* the saveConfig calls that took effect: the time and the configuration of each
    mgrRules,      \* RuleManager: the rule list shown
    handed,        \* RuleManager: the rules of the last onRulesChange call
    handoffs,      \* RuleManager: the onRulesChange calls made
    notification,  \* RuleManager: the notification shown, "" for none
    attempt,       \* RuleManager: the last saveRulesToStorage call
    loaded,        \* the last loadConfig call: what it found and what it returned
    migrationFlag, \* localStorage: 'curl-filter-migration-completed' is 'true'
    configCopy,    \* localStorage: the key 'curl-filter-config-backup'
    backupCopy,    \* localStorage: the key 'curl-filter-backup-backup'
    migration,     \* performMigration: where the run under way stands, the runs begun, the result
    timers,        \* CurlFilter: the window timers that are pending
    debounceTimerRef, \* CurlFilter: debounceTimerRef.current
    mounted,       \* CurlFilter: the component is mounted
    timeNow,       \* the time in milliseconds
    lastChange,    \* the time of the last input change
    clearedSince,  \* Clear was pressed after the last input change
    passed,        \* an automatic pass has run after the last input change
    autoPass       \* the automatic passes run and the text of the last

engineVars == <<given, rules, input, ctx, result, prev, calls, threw>>
curlVars == <<inputCurl, outputCurl, error, filterResult>>
parserVars == <<command, parses, builds>>
validatorVars == <<draft, validation>>
storageVars == <<storedRules, storedConfig, localConfig, importResult, clock>>
saveVars == <<lastSaved, savers, returned>>
backupVars == <<idbBackups, localBackups, configSaves>>
managerVars == <<mgrRules, handed, handoffs, notification, attempt>>
loadVars == <<loaded>>
migrationVars == <<migrationFlag, configCopy, backupCopy, migration>>
debounceVars == <<timers, debounceTimerRef, mounted, timeNow, lastChange, clearedSince, passed, autoPass>>
vars == <<engineVars, curlVars, parserVars, validatorVars, storageVars, saveVars, backupVars, managerVars, loadVars, migrationVars, debounceVars>>

NoValidation == [null |-> TRUE]

NoImport == [null |-> TRUE]

\* filterResult === null
NoResult == [null |-> TRUE]

\* no manager.saveRules has completed
NoSave == [done |-> FALSE, rules |-> << >>]

\* saveRulesToStorage has not been called
NoAttempt == [n |-> 0, outcome |-> "none", rules |-> << >>]

\* loadConfig has not been called
NoLoad == [n |-> 0, stored |-> NoConfig, readable |-> TRUE, backups |-> << >>, config |-> NoConfig]

\* performMigration has not been called
NoMigration == [pc |-> "idle", n |-> 0, success |-> FALSE, migratedRules |-> 0]

\* debounceTimerRef.current === null
NoTimer == [null |-> TRUE]

\* the step of the clock and the time the model runs to, in milliseconds
TickMs == 400

MaxTime == 2400

\* the callers of the function saveRules
Callers == {"c1", "c2"}

\* a caller with no call under way
Idle == [pc |-> "idle", rules |-> << >>, config |-> NoConfig]

\* this.rules.filter(...) returns a new array and sort() sorts that one, so
\* the engine's own array is left as it was
rulesAfterApply(rs) == rs

Init ==
    /\ given = << >>
    /\ rules = << >>
    /\ input = EmptyContext
    /\ ctx = EmptyContext
    /\ result = EmptyResult
    /\ prev = EmptyResult
    /\ calls = 0
    /\ threw = FALSE
    /\ inputCurl = ""
    /\ outputCurl = ""
    /\ error = ""
    /\ filterResult = NoResult
    /\ command = ""
    /\ parses = << >>
    /\ builds = << >>
    /\ draft = << >>
    /\ validation = NoValidation
    /\ storedRules = {}
    /\ storedConfig = NoConfig
    /\ localConfig = NoConfig
    /\ importResult = NoImport
    /\ clock = 1
    /\ lastSaved = NoSave
    /\ savers = [c \in Callers |-> Idle]
    /\ returned = << >>
    /\ idbBackups = {}
    /\ localBackups = << >>
    /\ configSaves = << >>
    /\ mgrRules = << >>
    /\ handed = << >>
    /\ handoffs = 0
    /\ notification = ""
    /\ attempt = NoAttempt
    /\ loaded = NoLoad
    /\ migrationFlag = FALSE
    /\ configCopy = NoConfig
    /\ backupCopy = << >>
    /\ migration = NoMigration
    /\ timers = {}
    /\ debounceTimerRef = NoTimer
    /\ mounted = TRUE
    /\ timeNow = 0
    /\ lastChange = 0
    /\ clearedSince = FALSE
    /\ passed = FALSE
    /\ autoPass = [n |-> 0, text |-> ""]

\* the caller adds a rule to its array and hands the array to setRules
SetRules(r) ==
    /\ calls = 0
    /\ Len(rules) < MaxRules
    /\ rules' = Append(rules, WithId(r, RuleIds[Len(rules) + 1]))
    /\ given' = rules'
    /\ UNCHANGED <<input, ctx, result, prev, calls, threw>>
    /\ UNCHANGED <<curlVars, parserVars, validatorVars, storageVars, saveVars, backupVars, managerVars, loadVars, migrationVars, debounceVars>>

\* applyFilters on a context the caller has just built
ApplyFilters(c) ==
    \E w \in {applyFilters(rules, c)} :
        /\ calls = 0
        /\ input' = c
        /\ ctx' = w.context
        /\ result' = IF w.threw THEN EmptyResult ELSE w.result
        /\ prev' = EmptyResult
        /\ calls' = 1
        /\ threw' = w.threw
        /\ rules' = rulesAfterApply(rules)
        /\ UNCHANGED given
        /\ UNCHANGED <<curlVars, parserVars, validatorVars, storageVars, saveVars, backupVars, managerVars, loadVars, migrationVars, debounceVars>>

\* applyFilters once more, on the same context object and the same rules
ApplyFiltersAgain ==
    \E w \in {applyFilters(rules, ctx)} :
        /\ calls >= 1
        /\ calls < MaxCalls
        /\ ctx' = w.context
        /\ prev' = result
        /\ result' = IF w.threw THEN EmptyResult ELSE w.result
        /\ calls' = calls + 1
        /\ threw' = w.threw
        /\ rules' = rulesAfterApply(rules)
        /\ UNCHANGED <<given, input>>
        /\ UNCHANGED <<curlVars, parserVars, validatorVars, storageVars, saveVars, backupVars, managerVars, loadVars, migrationVars, debounceVars>>

\* the caller drops the context and the result (Clear); the engine and its
\* rules stay
ClearResult ==
    /\ calls >= 1
    /\ input' = EmptyContext
    /\ ctx' = EmptyContext
    /\ result' = EmptyResult
    /\ prev' = EmptyResult
    /\ calls' = 0
    /\ threw' = FALSE
    /\ UNCHANGED <<given, rules>>
    /\ UNCHANGED <<curlVars, parserVars, validatorVars, storageVars, saveVars, backupVars, managerVars, loadVars, migrationVars, debounceVars>>

Next ==
    \/ \E r \in NewRules : SetRules(r)
    \/ \E c \in Contexts : ApplyFilters(c)
    \/ ApplyFiltersAgain
    \/ ClearResult

Spec == Init /\ [][Next]_vars

\* ------------------------------------------- state machine of CurlFilter
\* the commands a user pastes into the input box
CurlCommands ==
    { "curl 'http://h/p?ab=1&b=2'",
      "curl -d 'ab=1&b=2' http://h/p",
      "curl -X POST -H 'Content-Type: application/json' -d '{\"ab\":1,\"b\":2}' http://h/p",
      "curl -d '{\"ab\":1}' 'http://h/p?b=2'",
      "curl -H 'ab: 1' -d plain http://h/p",
      "curl -d 'a=%' http://h/p",
      "curl -k",
      " " }

\* the rules a user keeps in the rule manager
CurlRuleChoices ==
    { [action |-> "delete", target |-> "query_params", matchValue |-> "ab"],
      [action |-> "delete_all", target |-> "query_params", matchValue |-> ""],
      [action |-> "delete", target |-> "form_data", matchValue |-> "ab"],
      [action |-> "delete_all", target |-> "form_data", matchValue |-> ""],
      [action |-> "delete", target |-> "json_body", matchValue |-> "ab"],
      [action |-> "delete_all", target |-> "json_body", matchValue |-> ""],
      [action |-> "delete", target |-> "headers", matchValue |-> "ab"] }

CurlRule(choice, id) ==
    [id |-> id, action |-> choice.action, target |-> choice.target, matchMode |-> "exact",
     matchValue |-> choice.matchValue, priority |-> 50, enabled |-> TRUE]

\* the rule arrays the rule manager hands over: no rule, or one
CurlRuleSets == {<< >>} \cup {<<CurlRule(choice, RuleIds[1])>> : choice \in CurlRuleChoices}

\* what handleFilter leaves behind once applyFilters has returned or raised
handleFiltered(textToProcess, parsed, w) ==
    IF w.threw
    THEN [outputCurl |-> outputCurl, error |-> "parseError", filterResult |-> filterResult]
    ELSE [outputCurl |-> buildCurlFromContext(filteredParsed(parsed, w.result)),
          error |-> "", filterResult |-> w.result]

\* what handleFilter leaves behind once parseCurl has returned or raised
handleParsed(textToProcess, p, rs) ==
    IF p.threw \/ p.r.url = ""
    THEN [outputCurl |-> outputCurl,
          error |-> IF p.threw THEN "parseError" ELSE "parseUrlError",
          filterResult |-> filterResult]
    ELSE handleFiltered(textToProcess, p.r, applyFilters(rs, contextOf(p.r)))

\* handleFilter(textToProcess) with the engine holding the rules rs: the
\* values of outputCurl, error and filterResult after it
handleFilter(textToProcess, rs) ==
    IF Trim(textToProcess) = ""
    THEN [outputCurl |-> outputCurl, error |-> "inputRequired", filterResult |-> filterResult]
    ELSE handleParsed(textToProcess, parseCurl(textToProcess), rs)

\* the timer of autoFilter fires: the pass runs when the text is a cURL
\* command and a rule was enabled
TimerFires(timer) ==
    /\ timer \in timers
    /\ timeNow >= timer.due
    /\ timers' = timers \ {timer}
    /\ IF timerFilters(timer)
       THEN \E after \in {handleFilter(timer.text, rules)} :
               /\ outputCurl' = after.outputCurl
               /\ error' = after.error
               /\ filterResult' = after.filterResult
               /\ rules' = rulesAfterApply(rules)
               /\ autoPass' = [n |-> autoPass.n + 1, text |-> timer.text]
               /\ passed' = TRUE
       ELSE UNCHANGED <<outputCurl, error, filterResult, rules, autoPass, passed>>
    /\ UNCHANGED <<given, input, ctx, result, prev, calls, threw, inputCurl>>
    /\ UNCHANGED <<debounceTimerRef, mounted, timeNow, lastChange, clearedSince>>
    /\ UNCHANGED <<parserVars, validatorVars, storageVars, saveVars, backupVars, managerVars, loadVars, migrationVars>>

\* the component is unmounted: the effect's cleanup clears the timer
Unmount ==
    /\ mounted
    /\ mounted' = FALSE
    /\ timers' = clearTimeout(timers, debounceTimerRef)
    /\ UNCHANGED <<debounceTimerRef, timeNow, lastChange, clearedSince, passed, autoPass>>
    /\ UNCHANGED <<engineVars, curlVars, parserVars, validatorVars, storageVars, saveVars, backupVars, managerVars, loadVars, migrationVars>>

\* time passes
Tick ==
    /\ timeNow < MaxTime
    /\ timeNow' = timeNow + TickMs
    /\ UNCHANGED <<timers, debounceTimerRef, mounted, lastChange, clearedSince, passed, autoPass>>
    /\ UNCHANGED <<engineVars, curlVars, parserVars, validatorVars, storageVars, saveVars, backupVars, managerVars, loadVars, migrationVars>>

\* the user edits the input box
HandleInputChange(value) ==
    /\ mounted
    /\ value # inputCurl
    /\ inputCurl' = value
    /\ error' = ""
    /\ timers' = autoFilter(timers, debounceTimerRef, value, rules, timeNow)
    /\ debounceTimerRef' = newTimer(value, rules, timeNow)
    /\ lastChange' = timeNow
    /\ clearedSince' = FALSE
    /\ passed' = FALSE
    /\ UNCHANGED <<outputCurl, filterResult, mounted, timeNow, autoPass>>
    /\ UNCHANGED <<engineVars, parserVars, validatorVars, storageVars, saveVars, backupVars, managerVars, loadVars, migrationVars>>

\* the user presses Filter
HandleFilter ==
    \E after \in {handleFilter(inputCurl, rules)} :
        /\ mounted
        /\ outputCurl' = after.outputCurl
        /\ error' = after.error
        /\ filterResult' = after.filterResult
        /\ rules' = rulesAfterApply(rules)
        /\ UNCHANGED <<given, input, ctx, result, prev, calls, threw, inputCurl>>
        /\ UNCHANGED <<parserVars, validatorVars, storageVars, saveVars, backupVars, managerVars, loadVars, migrationVars, debounceVars>>

\* the rule manager hands over a new rule array; the input is filtered
\* again when there is one
HandleRulesChange(newRules) ==
    /\ mounted
    /\ newRules # rules
    /\ given' = newRules
    /\ rules' = rulesAfterApply(newRules)
    /\ IF Trim(inputCurl) # ""
       THEN \E after \in {handleFilter(inputCurl, newRules)} :
               /\ outputCurl' = after.outputCurl
               /\ error' = after.error
               /\ filterResult' = after.filterResult
              ELSE UNCHANGED <<outputCurl, error, filterResult>>
    /\ UNCHANGED <<input, ctx, result, prev, calls, threw, inputCurl>>
    /\ UNCHANGED <<parserVars, validatorVars, storageVars, saveVars, backupVars, managerVars, loadVars, migrationVars, debounceVars>>

\* the user presses Clear
HandleClear ==
    /\ mounted
    /\ inputCurl' = ""
    /\ outputCurl' = ""
    /\ filterResult' = NoResult
    /\ error' = ""
    /\ timers' = clearTimeout(timers, debounceTimerRef)
    /\ clearedSince' = TRUE
    /\ UNCHANGED <<debounceTimerRef, mounted, timeNow, lastChange, passed, autoPass>>
    /\ UNCHANGED <<engineVars, parserVars, validatorVars, storageVars, saveVars, backupVars, managerVars, loadVars, migrationVars>>

NextCurl ==
    \/ \E value \in CurlCommands : HandleInputChange(value)
    \/ HandleFilter
    \/ \E newRules \in CurlRuleSets : HandleRulesChange(newRules)
    \/ HandleClear

SpecCurl == Init /\ [][NextCurl]_vars

\* ------------------------------------- state machine of the debounce
\* the texts typed into the input box
DebounceTexts ==
    { "curl 'http://h/p?ab=1&b=2'",
      "CURL -H 'ab: 1' -d plain http://h/p",
      "not a command",
      " " }

\* the rule arrays the rule manager hands over
DebounceRuleSets ==
    { << >>, <<CurlRule([action |-> "delete", target |-> "query_params", matchValue |-> "ab"],
                        RuleIds[1])>> }

NextDebounce ==
    \/ \E value \in DebounceTexts : HandleInputChange(value)
    \/ HandleFilter
    \/ \E newRules \in DebounceRuleSets : HandleRulesChange(newRules)
    \/ HandleClear
    \/ \E timer \in timers : TimerFires(timer)
    \/ Unmount
    \/ Tick

SpecDebounce == Init /\ [][NextDebounce]_vars

\* ------------------------------- state machine of parseCurl and buildCurl
\* the commands handed to parseCurl
ParserCommands ==
    { "",
      "not a command",
      "curl",
      "curl -X",
      "curl 'http://h/p",
      "curl http://h/p?a=%",
      "curl -d 'a=%' http://h/p",
      "curl -d '%zz=1' http://h/p",
      "curl https://u.v",
      "curl 'https://u.v'",
      "curl -k https://u.v",
      "curl -k 'https://u.v'",
      "curl https://u.v https://w.x",
      "curl u.v https://w.x",
      "curl -H 'a: b' https://u.v",
      "curl -H 'a: b\"c' https://u.v",
      "curl -H 'NoColon' https://u.v",
      "curl -X POST -H 'Content-Type: application/json' -d '{\"ab\":1}' https://u.v",
      "curl -X 'PUT' \\\n  -H \"Accept: */*\" \\\n  \"https://u.v/p?ab=1\"",
      "curl -d 'ab=1&b=2' -L https://u.v",
      "curl --data-raw x=1 --max-time 5 https://u.v",
      "curl -A x --compressed https://u.v",
      "curl --referer y https://u.v",
      "curl -H 'Origin: o' --user-agent z https://u.v",
      "curl -o out.txt https://u.v" }

MaxBuilds == 3

\* parseCurl(curlCommand) on a command of the caller's
ParseCurl(curlCommand) ==
    /\ parses = << >>
    /\ command' = curlCommand
    /\ parses' = <<parseCurl(curlCommand)>>
    /\ builds' = << >>
    /\ UNCHANGED <<engineVars, curlVars, validatorVars, storageVars, saveVars, backupVars, managerVars, loadVars, migrationVars, debounceVars>>

\* buildCurl(parsed, parsed.headers) on the ParsedCurl returned last
BuildCurl ==
    /\ Len(builds) = Len(parses) - 1
    /\ Len(builds) < MaxBuilds
    /\ ~parses[Len(parses)].threw
    /\ builds' = Append(builds, buildCurl(parses[Len(parses)].r, parses[Len(parses)].r.headers))
    /\ UNCHANGED <<command, parses>>
    /\ UNCHANGED <<engineVars, curlVars, validatorVars, storageVars, saveVars, backupVars, managerVars, loadVars, migrationVars, debounceVars>>

\* parseCurl on the command built last
ParseBuilt ==
    /\ Len(builds) = Len(parses)
    /\ Len(builds) >= 1
    /\ parses' = Append(parses, parseCurl(builds[Len(builds)]))
    /\ UNCHANGED <<command, builds>>
    /\ UNCHANGED <<engineVars, curlVars, validatorVars, storageVars, saveVars, backupVars, managerVars, loadVars, migrationVars, debounceVars>>

\* the caller drops the command and what came of it
DropCommand ==
    /\ parses # << >>
    /\ command' = ""
    /\ parses' = << >>
    /\ builds' = << >>
    /\ UNCHANGED <<engineVars, curlVars, validatorVars, storageVars, saveVars, backupVars, managerVars, loadVars, migrationVars, debounceVars>>

NextParser ==
    \/ \E curlCommand \in ParserCommands : ParseCurl(curlCommand)
    \/ BuildCurl
    \/ ParseBuilt
    \/ DropCommand

SpecParser == Init /\ [][NextParser]_vars

\* ---------------------------------------- state machine of the validator
\* the rules a user or a document puts into a rule array
ValidatorRuleChoices ==
    { [name |-> "a", action |-> "delete", target |-> "headers", matchMode |-> "exact",
       matchValue |-> "ab", priority |-> 10, enabled |-> TRUE, absent |-> {}],
      [name |-> "b", action |-> "keep", target |-> "headers", matchMode |-> "exact",
       matchValue |-> "", priority |-> 10, enabled |-> TRUE, absent |-> {"matchValue"}],
      [name |-> "c", action |-> "delete", target |-> "headers", matchMode |-> "exact",
       matchValue |-> "", priority |-> 95, enabled |-> TRUE, absent |-> {}],
      [name |-> "d", action |-> "keep", target |-> "headers", matchMode |-> "exact",
       matchValue |-> " ", priority |-> 50, enabled |-> FALSE, absent |-> {}],
      [name |-> "e", action |-> "keep_all", target |-> "headers", matchMode |-> "exact",
       matchValue |-> "", priority |-> 90, enabled |-> TRUE, absent |-> {}],
      [name |-> "f", action |-> "delete_all", target |-> "headers", matchMode |-> "exact",
       matchValue |-> "", priority |-> 90, enabled |-> TRUE, absent |-> {}],
      [name |-> "g", action |-> "delete", target |-> "query_params", matchMode |-> "exact",
       matchValue |-> "ab", priority |-> 10, enabled |-> TRUE, absent |-> {}] }

\* the IDs the rules of a rule array carry
DraftIds == {"r1", "r2"}

MaxDraftRules == 4

RuleWithId(choice, id) ==
    [id |-> id, name |-> choice.name, action |-> choice.action, target |-> choice.target,
     matchMode |-> choice.matchMode, matchValue |-> choice.matchValue,
     priority |-> choice.priority, enabled |-> choice.enabled, absent |-> choice.absent]

\* one more rule in the rule array
AddRule(choice, id) ==
    /\ Len(draft) < MaxDraftRules
    /\ draft' = Append(draft, RuleWithId(choice, id))
    /\ validation' = NoValidation
    /\ UNCHANGED <<engineVars, curlVars, parserVars, storageVars, saveVars, backupVars, managerVars, loadVars, migrationVars, debounceVars>>

\* validateRules(rules) on the rule array
ValidateRules ==
    /\ validation = NoValidation
    /\ validation' = validateRules(draft)
    /\ UNCHANGED draft
    /\ UNCHANGED <<engineVars, curlVars, parserVars, storageVars, saveVars, backupVars, managerVars, loadVars, migrationVars, debounceVars>>

\* the rule array is dropped
DropRules ==
    /\ draft # << >>
    /\ draft' = << >>
    /\ validation' = NoValidation
    /\ UNCHANGED <<engineVars, curlVars, parserVars, storageVars, saveVars, backupVars, managerVars, loadVars, migrationVars, debounceVars>>

NextValidator ==
    \/ \E choice \in ValidatorRuleChoices, id \in DraftIds : AddRule(choice, id)
    \/ ValidateRules
    \/ DropRules

SpecValidator == Init /\ [][NextValidator]_vars

\* --------------------------------------------- state machine of the import
\* the documents a user imports
ImportDocuments ==
    { "not json",
      "null",
      "{}",
      "{\"rules\":1}",
      "{\"rules\":[null]}",
      "{\"rules\":[]}",
      "{\"rules\":[{\"name\":\"a\",\"action\":\"delete\",\"target\":\"headers\",\"matchMode\":\"exact\",\"matchValue\":\"ab\"}]}",
      "{\"rules\":[{\"action\":\"delete_all\",\"target\":\"headers\",\"matchMode\":\"exact\",\"priority\":90,\"enabled\":false},{\"name\":\"k\",\"action\":\"keep\",\"target\":\"form_data\",\"matchMode\":\"regex\",\"matchValue\":\"^.\"}],\"settings\":{\"autoApply\":true}}",
      "{\"rules\":[{\"name\":\"a\",\"action\":\"delete\",\"target\":\"headers\",\"matchMode\":\"exact\"}]}",
      "{\"rules\":[{\"name\":\"a\",\"action\":\"drop\",\"target\":\"headers\",\"matchMode\":\"exact\",\"matchValue\":\"ab\",\"priority\":101}]}" }

MaxImports == 2

\* IndexedDBStorageManager.importConfig(jsonData); cleared, saved and
\* savedConfig say whether clearRules, saveRules and saveConfig took effect
ImportConfig(jsonData, cleared, saved, savedConfig) ==
    \E outcome \in {importOutcome(jsonData, clock)} :
        /\ clock <= MaxImports
        /\ clock' = clock + 1
        /\ importResult' = [manager |-> "IndexedDB", success |-> outcome.success,
                            error |-> outcome.error, config |-> outcome.config]
        /\ IF outcome.success
           THEN /\ storedRules' = rulesAfterImport(storedRules, outcome.config.rules,
                                                   cleared, saved)
                /\ storedConfig' = IF savedConfig THEN outcome.config ELSE storedConfig
                /\ idbBackups' = IF savedConfig
                                 THEN createBackup(idbBackups, outcome.config, clock)
                                 ELSE idbBackups
                /\ configSaves' = IF savedConfig
                                  THEN Append(configSaves, [timestamp |-> clock,
                                                            config |-> outcome.config])
                                  ELSE configSaves
           ELSE /\ cleared /\ saved /\ savedConfig
                /\ UNCHANGED <<storedRules, storedConfig, idbBackups, configSaves>>
        /\ UNCHANGED <<localConfig, localBackups>>
        /\ UNCHANGED <<engineVars, curlVars, parserVars, validatorVars, saveVars, managerVars, loadVars, migrationVars, debounceVars>>

\* RuleManager.handleImport on a document: RuleStorageManager.importConfig
\* and, when it succeeds, saveConfig, which takes effect or fails, and
\* loadRulesFromStorage once the configuration is saved
HandleImport(jsonData, savedConfig) ==
    \E outcome \in {importOutcome(jsonData, clock)} :
        /\ clock <= MaxImports
        /\ clock' = clock + 1
        /\ importResult' = [manager |-> "localStorage", success |-> outcome.success,
                            error |-> outcome.error, config |-> outcome.config]
        /\ IF outcome.success /\ savedConfig
           THEN /\ localConfig' = outcome.config
                /\ localBackups' = createLocalBackup(localBackups, outcome.config, clock)
                /\ configSaves' = Append(configSaves, [timestamp |-> clock,
                                                       config |-> outcome.config])
                /\ mgrRules' = loadConfig(localConfig', TRUE, localBackups').rules
                /\ handed' = mgrRules'
                /\ handoffs' = handoffs + 1
                /\ notification' = "configImportSuccess"
           ELSE /\ outcome.success \/ savedConfig
                /\ notification' = IF outcome.success THEN "configSaveFailed" ELSE outcome.error
                /\ UNCHANGED <<localConfig, localBackups, configSaves, mgrRules, handed, handoffs>>
        /\ UNCHANGED <<storedRules, storedConfig, idbBackups, attempt>>
        /\ UNCHANGED <<engineVars, curlVars, parserVars, validatorVars, saveVars, loadVars, migrationVars, debounceVars>>

NextImport ==
    \/ \E jsonData \in ImportDocuments, cleared, saved, savedConfig \in BOOLEAN :
          ImportConfig(jsonData, cleared, saved, savedConfig)
    \/ \E jsonData \in ImportDocuments, savedConfig \in BOOLEAN :
          HandleImport(jsonData, savedConfig)

SpecImport == Init /\ [][NextImport]_vars

\* ------------------------------------- state machine of the rule store
\* the rule arrays handed to saveRules
StoreRuleArrays ==
    { << >>,
      <<RuleWithId(CHOOSE r \in ValidatorRuleChoices : r.name = "a", "r1")>>,
      <<RuleWithId(CHOOSE r \in ValidatorRuleChoices : r.name = "g", "r2")>>,
      <<RuleWithId(CHOOSE r \in ValidatorRuleChoices : r.name = "a", "r1"),
        RuleWithId(CHOOSE r \in ValidatorRuleChoices : r.name = "g", "r2")>> }

\* the calls of saveRules made in all
MaxSaves == 3

\* the calls of saveRules begun so far
Begun == Len(returned) + Cardinality({c \in Callers : savers[c].pc # "idle"})

\* saveRules(rules): a caller enters the function
SaveRules(c, rs) ==
    /\ savers[c].pc = "idle"
    /\ Begun < MaxSaves
    /\ savers' = [savers EXCEPT ![c] = [pc |-> "saveRules", rules |-> rs, config |-> NoConfig]]
    /\ UNCHANGED <<lastSaved, returned>>
    /\ UNCHANGED <<engineVars, curlVars, parserVars, validatorVars, storageVars, backupVars, managerVars, loadVars, migrationVars, debounceVars>>

\* await manager.saveRules(rules), and return false when it reports false
ManagerSaveRules(c, ok) ==
    /\ savers[c].pc = "saveRules"
    /\ storedRules' = saveRulesInto(storedRules, savers[c].rules, ok)
    /\ lastSaved' = IF ok THEN [done |-> TRUE, rules |-> savers[c].rules] ELSE lastSaved
    /\ savers' = [savers EXCEPT ![c] = IF ok THEN [@ EXCEPT !.pc = "loadConfig"] ELSE Idle]
    /\ returned' = IF ok THEN returned
                   ELSE Append(returned, [ok |-> FALSE, rules |-> savers[c].rules])
    /\ UNCHANGED <<storedConfig, localConfig, importResult, clock>>
    /\ UNCHANGED <<engineVars, curlVars, parserVars, validatorVars, backupVars, managerVars, loadVars, migrationVars, debounceVars>>

\* await manager.loadConfig() || manager.createDefaultConfig()
ManagerLoadConfig(c) ==
    /\ savers[c].pc = "loadConfig"
    /\ savers' = [savers EXCEPT ![c] =
                     [@ EXCEPT !.pc = "saveConfig",
                               !.config = loadConfig(storedConfig, TRUE, getBackups(idbBackups))]]
    /\ UNCHANGED <<lastSaved, returned>>
    /\ UNCHANGED <<engineVars, curlVars, parserVars, validatorVars, storageVars, backupVars, managerVars, loadVars, migrationVars, debounceVars>>

\* return await manager.saveConfig(newConfig): the configuration is put and
\* a backup made of it, or the put fails and saveConfig reports false
ManagerSaveConfig(c, ok) ==
    /\ savers[c].pc = "saveConfig"
    /\ storedConfig' = IF ok THEN newConfig(savers[c].config, savers[c].rules) ELSE storedConfig
    /\ idbBackups' = IF ok THEN createBackup(idbBackups,
                                             newConfig(savers[c].config, savers[c].rules), clock)
                     ELSE idbBackups
    /\ clock' = clock + 1
    /\ savers' = [savers EXCEPT ![c] = Idle]
    /\ returned' = Append(returned, [ok |-> ok, rules |-> savers[c].rules])
    /\ configSaves' = IF ok THEN Append(configSaves,
                                        [timestamp |-> clock,
                                         config |-> newConfig(savers[c].config, savers[c].rules)])
                      ELSE configSaves
    /\ UNCHANGED <<storedRules, localConfig, importResult, lastSaved, localBackups>>
    /\ UNCHANGED <<engineVars, curlVars, parserVars, validatorVars, managerVars, loadVars, migrationVars, debounceVars>>

NextSave ==
    \/ \E c \in Callers, rs \in StoreRuleArrays : SaveRules(c, rs)
    \/ \E c \in Callers, ok \in BOOLEAN : ManagerSaveRules(c, ok)
    \/ \E c \in Callers : ManagerLoadConfig(c)
    \/ \E c \in Callers, ok \in BOOLEAN : ManagerSaveConfig(c, ok)

SpecSave == Init /\ [][NextSave]_vars

\* ------------------------------------- state machine of RuleManager
\* the rules the editor hands to handleSaveRule
EditedRules ==
    { RuleWithId(CHOOSE r \in ValidatorRuleChoices : r.name = "a", "r1"),
      RuleWithId(CHOOSE r \in ValidatorRuleChoices : r.name = "g", "r2"),
      RuleWithId(CHOOSE r \in ValidatorRuleChoices : r.name = "e", "r2"),
      RuleWithId(CHOOSE r \in ValidatorRuleChoices : r.name = "c", "r1") }

\* the rules of the template applied at the time now
TemplateRules(now) ==
    <<RuleWithId(CHOOSE r \in ValidatorRuleChoices : r.name = "e",
                 "template_t_" \o DecimalOf(now) \o "_0")>>

\* how a call of saveRules ends: it returns true, returns false, or throws
SaveOutcomes == {"true", "false", "throws"}

\* the saveRulesToStorage calls made in all
MaxAttempts == 3

\* saveRulesToStorage(newRules): saveRules(newRules) of ruleStorage writes
\* the configuration and a backup when it returns true; then the rule list,
\* the callback and the notification
SaveRulesToStorage(newRules, outcome) ==
    /\ attempt.n < MaxAttempts
    /\ attempt' = [n |-> attempt.n + 1, outcome |-> outcome, rules |-> newRules]
    /\ localConfig' = IF outcome = "true" THEN localNewConfig(localConfig, localBackups, newRules)
                      ELSE localConfig
    /\ localBackups' = IF outcome = "true"
                       THEN createLocalBackup(localBackups,
                                localNewConfig(localConfig, localBackups, newRules), clock)
                       ELSE localBackups
    /\ clock' = clock + 1
    /\ mgrRules' = rulesAfterSave(mgrRules, newRules, outcome)
    /\ handed' = IF outcome = "true" THEN newRules ELSE handed
    /\ handoffs' = IF outcome = "true" THEN handoffs + 1 ELSE handoffs
    /\ notification' = notificationAfterSave(outcome)
    /\ configSaves' = IF outcome = "true"
                      THEN Append(configSaves,
                                  [timestamp |-> clock,
                                   config |-> localNewConfig(localConfig, localBackups, newRules)])
                      ELSE configSaves
    /\ UNCHANGED <<storedRules, storedConfig, importResult, idbBackups>>
    /\ UNCHANGED <<engineVars, curlVars, parserVars, validatorVars, saveVars, loadVars, migrationVars, debounceVars>>

\* handleDeleteRule(ruleId)
HandleDeleteRule(ruleId, outcome) ==
    /\ \E i \in 1..Len(mgrRules) : mgrRules[i].id = ruleId
    /\ SaveRulesToStorage(withoutRule(mgrRules, ruleId), outcome)

\* handleToggleRule(ruleId)
HandleToggleRule(ruleId, outcome) ==
    /\ \E i \in 1..Len(mgrRules) : mgrRules[i].id = ruleId
    /\ SaveRulesToStorage(withToggled(mgrRules, ruleId), outcome)

\* handleSaveRule(rule) on a rule array that passes validateRules
HandleSaveRule(rule, outcome) ==
    /\ validateRules(withSaved(mgrRules, rule)).isValid
    /\ SaveRulesToStorage(withSaved(mgrRules, rule), outcome)

\* handleSaveRule(rule) on a rule array that fails validateRules: the
\* notification, and nothing is saved
HandleSaveInvalidRule(rule) ==
    /\ ~validateRules(withSaved(mgrRules, rule)).isValid
    /\ notification # "validationFailed"
    /\ notification' = "validationFailed"
    /\ UNCHANGED <<mgrRules, handed, handoffs, attempt>>
    /\ UNCHANGED <<engineVars, curlVars, parserVars, validatorVars, storageVars, saveVars, backupVars, loadVars, migrationVars, debounceVars>>

\* handleApplyTemplate(template): the notification of the template is shown
\* before saveRulesToStorage goes on after its await, so that of the save is
\* the one that stays
HandleApplyTemplate(outcome) ==
    SaveRulesToStorage(TemplateRules(clock), outcome)

\* loadRulesFromStorage(): loadRules() of ruleStorage, then the rule list and
\* the callback
LoadRulesFromStorage ==
    /\ handoffs <= MaxAttempts
    /\ mgrRules' = loadConfig(localConfig, TRUE, localBackups).rules
    /\ handed' = loadConfig(localConfig, TRUE, localBackups).rules
    /\ handoffs' = handoffs + 1
    /\ UNCHANGED <<notification, attempt>>
    /\ UNCHANGED <<engineVars, curlVars, parserVars, validatorVars, storageVars, saveVars, backupVars, loadVars, migrationVars, debounceVars>>

NextManager ==
    \/ \E ruleId \in DraftIds, outcome \in SaveOutcomes : HandleDeleteRule(ruleId, outcome)
    \/ \E ruleId \in DraftIds, outcome \in SaveOutcomes : HandleToggleRule(ruleId, outcome)
    \/ \E rule \in EditedRules, outcome \in SaveOutcomes : HandleSaveRule(rule, outcome)
    \/ \E rule \in EditedRules : HandleSaveInvalidRule(rule)
    \/ \E outcome \in SaveOutcomes : HandleApplyTemplate(outcome)
    \/ LoadRulesFromStorage

SpecManager == Init /\ [][NextManager]_vars

\* ------------------------------------- state machine of the backups
\* the configurations handed to saveConfig
BackupConfigs ==
    { createDefaultConfig,
      [createDefaultConfig EXCEPT
          !.rules = <<RuleWithId(CHOOSE r \in ValidatorRuleChoices : r.name = "a", "r1")>>] }

\* the saveConfig calls made in all
MaxConfigSaves == 12

\* IndexedDBStorageManager.saveConfig(config): the configuration is put and
\* a backup made of it, or the put fails and nothing is written
SaveConfigIndexedDB(config, ok) ==
    /\ clock <= MaxConfigSaves
    /\ localConfig = NoConfig
    /\ clock' = clock + 1
    /\ storedConfig' = IF ok THEN config ELSE storedConfig
    /\ idbBackups' = IF ok THEN createBackup(idbBackups, config, clock) ELSE idbBackups
    /\ configSaves' = IF ok THEN Append(configSaves, [timestamp |-> clock, config |-> config])
                      ELSE configSaves
    /\ UNCHANGED <<storedRules, localConfig, importResult, localBackups>>
    /\ UNCHANGED <<engineVars, curlVars, parserVars, validatorVars, saveVars, managerVars, loadVars, migrationVars, debounceVars>>

\* RuleStorageManager.saveConfig(config): setItem and createBackup, or
\* setItem throws and nothing is written
SaveConfigLocal(config, ok) ==
    /\ clock <= MaxConfigSaves
    /\ storedConfig = NoConfig
    /\ clock' = clock + 1
    /\ localConfig' = IF ok THEN config ELSE localConfig
    /\ localBackups' = IF ok THEN createLocalBackup(localBackups, config, clock)
                       ELSE localBackups
    /\ configSaves' = IF ok THEN Append(configSaves, [timestamp |-> clock, config |-> config])
                      ELSE configSaves
    /\ UNCHANGED <<storedRules, storedConfig, importResult, idbBackups>>
    /\ UNCHANGED <<engineVars, curlVars, parserVars, validatorVars, saveVars, managerVars, loadVars, migrationVars, debounceVars>>

NextBackup ==
    \/ \E config \in BackupConfigs, ok \in BOOLEAN : SaveConfigIndexedDB(config, ok)
    \/ \E config \in BackupConfigs, ok \in BOOLEAN : SaveConfigLocal(config, ok)

SpecBackup == Init /\ [][NextBackup]_vars

\* ------------------------------------- state machine of loadConfig
\* the configurations the stores come to hold: two with valid rules, one
\* whose rules share an id, one whose rule array holds a null, one that an
\* earlier version wrote
LoadConfigs ==
    { [createDefaultConfig EXCEPT
          !.rules = <<RuleWithId(CHOOSE r \in ValidatorRuleChoices : r.name = "a", "r1")>>],
      [createDefaultConfig EXCEPT
          !.rules = <<RuleWithId(CHOOSE r \in ValidatorRuleChoices : r.name = "g", "r2")>>],
      [createDefaultConfig EXCEPT
          !.rules = <<RuleWithId(CHOOSE r \in ValidatorRuleChoices : r.name = "a", "r1"),
                      RuleWithId(CHOOSE r \in ValidatorRuleChoices : r.name = "g", "r1")>>],
      [createDefaultConfig EXCEPT !.rules = <<NullRule>>],
      [createDefaultConfig EXCEPT
          !.version = "0.9.0",
          !.rules = <<RuleWithId(CHOOSE r \in ValidatorRuleChoices : r.name = "a", "r1")>>] }

\* the saveConfig calls before the loads
MaxStoredConfigs == 3

\* the loadConfig calls made in all
MaxLoads == 2

\* IndexedDBStorageManager.loadConfig(): readable says whether the get of
\* the configuration succeeded, listed whether getBackups() could read the
\* backup store (it gives [] when it could not)
LoadConfigIndexedDB(readable, listed) ==
    /\ loaded.n < MaxLoads
    /\ localConfig = NoConfig
    /\ loaded' = [n |-> loaded.n + 1,
                  stored |-> storedConfig,
                  readable |-> readable,
                  backups |-> IF listed THEN getBackups(idbBackups) ELSE << >>,
                  config |-> loadConfig(storedConfig, readable,
                                        IF listed THEN getBackups(idbBackups) ELSE << >>)]
    /\ UNCHANGED <<engineVars, curlVars, parserVars, validatorVars, storageVars, saveVars, backupVars, managerVars, migrationVars, debounceVars>>

\* RuleStorageManager.loadConfig(): readable says whether JSON.parse took
\* the stored text, listed whether getBackups() could parse the backup list
LoadConfigLocal(readable, listed) ==
    /\ loaded.n < MaxLoads
    /\ storedConfig = NoConfig
    /\ loaded' = [n |-> loaded.n + 1,
                  stored |-> localConfig,
                  readable |-> readable,
                  backups |-> IF listed THEN localBackups ELSE << >>,
                  config |-> loadConfig(localConfig, readable,
                                        IF listed THEN localBackups ELSE << >>)]
    /\ UNCHANGED <<engineVars, curlVars, parserVars, validatorVars, storageVars, saveVars, backupVars, managerVars, migrationVars, debounceVars>>

NextLoad ==
    \/ \E config \in LoadConfigs, ok \in BOOLEAN :
          clock <= MaxStoredConfigs /\ SaveConfigIndexedDB(config, ok)
    \/ \E config \in LoadConfigs, ok \in BOOLEAN :
          clock <= MaxStoredConfigs /\ SaveConfigLocal(config, ok)
    \/ \E readable \in BOOLEAN, listed \in BOOLEAN : LoadConfigIndexedDB(readable, listed)
    \/ \E readable \in BOOLEAN, listed \in BOOLEAN : LoadConfigLocal(readable, listed)

SpecLoad == Init /\ [][NextLoad]_vars

\* ------------------------------------- state machine of the migration
\* the configurations RuleStorageManager left in localStorage
MigrationConfigs ==
    LoadConfigs \cup
    { [createDefaultConfig EXCEPT
          !.rules = <<RuleWithId(CHOOSE r \in ValidatorRuleChoices : r.name = "c", "r1"),
                      RuleWithId(CHOOSE r \in ValidatorRuleChoices : r.name = "g", "r2")>>] }

\* a rule that does not pass validateRules, saved on its own
StrayRule == RuleWithId(CHOOSE r \in ValidatorRuleChoices : r.name = "c", "r3")

\* the saveConfig calls of RuleStorageManager
MaxLocalSaves == 2

\* the performMigration calls made in all
MaxMigrations == 3

\* a run of performMigration ends with an exception caught
migrationFailed == [migration EXCEPT !.pc = "idle", !.success = FALSE]

\* IndexedDBStorageManager.saveRule(rule): the rule is put as it is
SaveRule(rule) ==
    /\ storedRules' = putRules(storedRules, <<rule>>)
    /\ UNCHANGED <<storedConfig, localConfig, importResult, clock>>
    /\ UNCHANGED <<engineVars, curlVars, parserVars, validatorVars, saveVars, backupVars, managerVars, loadVars, migrationVars, debounceVars>>

\* performMigration() up to the status check: nothing to do, or on to
\* migrateMainConfig
PerformMigration(read) ==
    /\ migration.pc = "idle"
    /\ migration.n < MaxMigrations
    /\ migration' =
          [pc |-> IF isRequired(read, localConfig, localBackups, migrationFlag)
                  THEN "migrateMainConfig" ELSE "idle",
           n |-> migration.n + 1,
           success |-> ~isRequired(read, localConfig, localBackups, migrationFlag),
           migratedRules |-> 0]
    /\ UNCHANGED <<migrationFlag, configCopy, backupCopy>>
    /\ UNCHANGED <<engineVars, curlVars, parserVars, validatorVars, storageVars, saveVars, backupVars, managerVars, loadVars, debounceVars>>

\* migrateMainConfig and migrateBackups (which writes nothing): parsed says
\* whether JSON.parse took the stored text, saveOk whether saveConfig
\* returned true, rulesOk whether saveRules did
MigrateMainConfig(parsed, saveOk, rulesOk) ==
    /\ migration.pc = "migrateMainConfig"
    /\ IF localConfig = NoConfig
       THEN /\ migration' = [migration EXCEPT !.pc = "validateMigration"]
            /\ UNCHANGED <<storedRules, storedConfig, clock, idbBackups, configSaves>>
       ELSE IF ~parsed \/ validateRulesThrows(localConfig.rules) \/ ~saveOk
       THEN /\ migration' = migrationFailed
            /\ UNCHANGED <<storedRules, storedConfig, clock, idbBackups, configSaves>>
       ELSE /\ storedConfig' = migratedConfigOf(localConfig)
            /\ idbBackups' = createBackup(idbBackups, migratedConfigOf(localConfig), clock)
            /\ configSaves' = Append(configSaves, [timestamp |-> clock,
                                                   config |-> migratedConfigOf(localConfig)])
            /\ clock' = clock + 1
            /\ storedRules' = saveRulesInto(storedRules, migratedRulesOf(localConfig.rules), rulesOk)
            /\ migration' =
                  IF migratedRulesOf(localConfig.rules) = << >>
                  THEN [migration EXCEPT !.pc = "validateMigration"]
                  ELSE IF rulesOk
                  THEN [migration EXCEPT !.pc = "validateMigration",
                                         !.migratedRules = Len(migratedRulesOf(localConfig.rules))]
                  ELSE migrationFailed
    /\ UNCHANGED <<localConfig, importResult, localBackups>>
    /\ UNCHANGED <<migrationFlag, configCopy, backupCopy>>
    /\ UNCHANGED <<engineVars, curlVars, parserVars, validatorVars, saveVars, managerVars, loadVars, debounceVars>>

\* validateMigration and the end of performMigration: rulesRead says
\* whether loadRules() could read the store (it gives [] when it could not)
ValidateMigration(rulesRead) ==
    /\ migration.pc = "validateMigration"
    /\ migration' =
          [migration EXCEPT
              !.pc = "idle",
              !.success = validateRules(IF rulesRead THEN loadRules(storedRules)
                                        ELSE << >>).isValid]
    /\ migrationFlag' = flagAfterMigration(migrationFlag, migration'.success)
    /\ UNCHANGED <<configCopy, backupCopy>>
    /\ UNCHANGED <<engineVars, curlVars, parserVars, validatorVars, storageVars, saveVars, backupVars, managerVars, loadVars, debounceVars>>

\* cleanupLocalStorage(): read says whether the status could be read, copies
\* how many of the setItem calls went through before one threw (2 when none
\* threw)
CleanupLocalStorage(read, copies) ==
    /\ configCopy' = IF read /\ migrationFlag /\ localConfig # NoConfig /\ copies >= 1
                     THEN localConfig ELSE configCopy
    /\ backupCopy' = IF read /\ migrationFlag /\ localBackups # << >> /\ copies >= 2
                     THEN localBackups ELSE backupCopy
    /\ localConfig' = IF read /\ migrationFlag /\ copies >= 2 THEN NoConfig ELSE localConfig
    /\ localBackups' = IF read /\ migrationFlag /\ copies >= 2 THEN << >> ELSE localBackups
    /\ UNCHANGED <<storedRules, storedConfig, importResult, clock, idbBackups, configSaves>>
    /\ UNCHANGED <<migrationFlag, migration>>
    /\ UNCHANGED <<engineVars, curlVars, parserVars, validatorVars, saveVars, managerVars, loadVars, debounceVars>>

\* rollbackMigration(): cleared says whether clearStorage() emptied the
\* database
RollbackMigration(cleared) ==
    /\ localConfig' = IF configCopy # NoConfig THEN configCopy ELSE localConfig
    /\ localBackups' = IF backupCopy # << >> THEN backupCopy ELSE localBackups
    /\ migrationFlag' = FALSE
    /\ storedConfig' = IF cleared THEN NoConfig ELSE storedConfig
    /\ storedRules' = IF cleared THEN {} ELSE storedRules
    /\ idbBackups' = IF cleared THEN {} ELSE idbBackups
    /\ UNCHANGED <<importResult, clock, configSaves>>
    /\ UNCHANGED <<configCopy, backupCopy, migration>>
    /\ UNCHANGED <<engineVars, curlVars, parserVars, validatorVars, saveVars, managerVars, loadVars, debounceVars>>

NextMigration ==
    \/ \E config \in MigrationConfigs, ok \in BOOLEAN :
          clock <= MaxLocalSaves /\ SaveConfigLocal(config, ok)
    \/ SaveRule(StrayRule)
    \/ \E read \in BOOLEAN : PerformMigration(read)
    \/ \E parsed \in BOOLEAN, saveOk \in BOOLEAN, rulesOk \in BOOLEAN :
          MigrateMainConfig(parsed, saveOk, rulesOk)
    \/ \E rulesRead \in BOOLEAN : ValidateMigration(rulesRead)
    \/ \E read \in BOOLEAN, copies \in 0..2 : CleanupLocalStorage(read, copies)
    \/ \E cleared \in BOOLEAN : RollbackMigration(cleared)

SpecMigration == Init /\ [][NextMigration]_vars

\* --------------------------------------------------- vocabulary of the claims
\* applyFilters has returned a FilterResult for (rules, input)
Returned == calls >= 1 /\ ~threw

AppliedIds == {result.appliedRules[n] : n \in 1..Len(result.appliedRules)}

TimesApplied(id) == Cardinality({n \in 1..Len(result.appliedRules) : result.appliedRules[n] = id})

\* the keyed fields of a target in a context or a result (none for a JSON
\* body that is a primitive)
Fields(x, target) ==
    CASE target = "headers" -> x.headers
      [] target = "query_params" -> x.queryParams
      [] target = "form_data" -> x.formData
      [] target = "json_body" -> x.jsonBody.v

\* a target's collection as a whole value
Whole(x, target) == IF target = "json_body" THEN x.jsonBody ELSE Fields(x, target)

EnabledOn(target) == {i \in 1..Len(rules) : rules[i].enabled /\ rules[i].target = target}
GlobalOn(target) == {i \in EnabledOn(target) : rules[i].action \in {"delete_all", "keep_all"}}
SpecificOn(target) == {i \in EnabledOn(target) : rules[i].action \in {"delete", "keep"}}

\* the keys of the input collection that rule i matches
MatchedBy(i) ==
    {k \in DOMAIN Fields(input, rules[i].target) :
        isMatch(k, rules[i].matchValue, rules[i].matchMode)}

\* the rule array without its i-th rule
Without(rs, i) == SubSeq(rs, 1, i - 1) \o SubSeq(rs, i + 1, Len(rs))

WithoutAll(rs, drop) == LET Stays(r) == r.id \notin drop IN SelectSeq(rs, Stays)

JsonBodyIsObject == input.jsonBody.t \in {"obj", "arr"}

\* ------------------------------------------------------------------------ C1
\* the enabled rules on the target are one delete_all and one or more keep
DeleteAllAndKeeps(target) ==
    /\ Cardinality(GlobalOn(target)) = 1
    /\ \A i \in GlobalOn(target) : rules[i].action = "delete_all"
    /\ SpecificOn(target) # {}
    /\ \A i \in SpecificOn(target) : rules[i].action = "keep"

KeptKeys(target) == UNION {MatchedBy(i) : i \in SpecificOn(target)}

GlobalDominanceOn(target) ==
    /\ DOMAIN Fields(result, target) = KeptKeys(target)
    /\ \A k \in KeptKeys(target) : Fields(result, target)[k] = Fields(input, target)[k]
    /\ \A i \in GlobalOn(target) : rules[i].id \in AppliedIds
    /\ \A i \in SpecificOn(target) : MatchedBy(i) # {} => rules[i].id \in AppliedIds

\* C1 as claimed: on any target whose enabled rules are one delete_all and one
\* or more keep rules, the result holds exactly the original keys some keep
\* rule matches, with their original values, and appliedRules holds the
\* delete_all rule's ID and the ID of every keep rule that matched.
C1_GlobalDominanceAnyTarget ==
    Returned => \A target \in FilterTarget :
        DeleteAllAndKeeps(target) => GlobalDominanceOn(target)

\* C1 amended: the same, on headers, query_params and form_data, and on
\* json_body when the JSON body is a non-null object (or an array).
C1_GlobalDominance ==
    Returned => \A target \in FilterTarget :
        (DeleteAllAndKeeps(target) /\ (target = "json_body" => JsonBodyIsObject))
            => GlobalDominanceOn(target)

C1_Witness ==
    /\ Returned
    /\ \E target \in FilterTarget :
        /\ DeleteAllAndKeeps(target)
        /\ target = "json_body" => JsonBodyIsObject
        /\ KeptKeys(target) # {}
        /\ KeptKeys(target) # DOMAIN Fields(input, target)
        /\ \E i \in SpecificOn(target), g \in GlobalOn(target) :
              rules[i].priority > rules[g].priority

\* ------------------------------------------------------------------------ C2
\* the position in the rule array of the rule with this ID (IDs are unique)
IndexOfId(id) == CHOOSE i \in 1..Len(rules) : rules[i].id = id

\* the positions of appliedRules that hold enabled delete/keep rules of the target
SpecificPositions(target) ==
    {n \in 1..Len(result.appliedRules) :
        IndexOfId(result.appliedRules[n]) \in SpecificOn(target)}

\* C2: the delete/keep rules of one target that matched appear in appliedRules
\* by descending priority, and rules of equal priority in the order they have
\* in the array given to setRules.
C2_AppliedInPriorityOrder ==
    Returned => \A target \in FilterTarget :
        \A m, n \in SpecificPositions(target) :
            m < n =>
                LET a == rules[IndexOfId(result.appliedRules[m])]
                    b == rules[IndexOfId(result.appliedRules[n])]
                IN  \/ a.priority > b.priority
                    \/ /\ a.priority = b.priority
                       /\ IndexOfId(a.id) < IndexOfId(b.id)

C2_Witness ==
    /\ Returned
    /\ Len(rules) = 2
    /\ rules[1].target = rules[2].target
    /\ rules[1].priority < rules[2].priority
    /\ {1, 2} \subseteq SpecificOn(rules[1].target)
    /\ result.appliedRules = <<rules[2].id, rules[1].id>>

\* ------------------------------------------------------------------------ C3
\* C3 as claimed: on a target with no enabled delete or delete_all rule the
\* returned collection equals the input collection, whatever keep and
\* keep_all rules are enabled.
C3_KeepIsNonDestructive ==
    Returned => \A target \in FilterTarget :
        (\A i \in EnabledOn(target) : rules[i].action \in {"keep", "keep_all"})
            => Whole(result, target) = Whole(input, target)

\* ------------------------------------------------------------------------ C4
\* C4: a disabled rule's ID is never applied, and the FilterResult is the one
\* the engine returns with that rule removed from the rule array.
C4_DisabledRulesIgnored ==
    Returned => \A i \in 1..Len(rules) :
        ~rules[i].enabled =>
            /\ rules[i].id \notin AppliedIds
            /\ result = applyFilters(Without(rules, i), input).result

C4_Witness ==
    /\ Returned
    /\ \E i \in 1..Len(rules) :
        /\ ~rules[i].enabled
        /\ rules[i].priority = 90
        /\ rules[i].action = "delete"
        /\ MatchedBy(i) # {}
        /\ \E j \in SpecificOn(rules[i].target) : rules[j].id \in AppliedIds

\* ------------------------------------------------------------------------ C5
\* the enabled global rule of the target that stands first once the rules are
\* ordered: the highest priority, and the earliest in the array among equals
TopGlobal(target) ==
    CHOOSE g \in GlobalOn(target) :
        \A h \in GlobalOn(target) :
            \/ rules[g].priority > rules[h].priority
            \/ rules[g].priority = rules[h].priority /\ g <= h

OtherGlobalIds(target) == {rules[h].id : h \in GlobalOn(target) \ {TopGlobal(target)}}

OneGlobalRuleOn(target) ==
    LET top == rules[TopGlobal(target)]
        alone == applyFilters(WithoutAll(rules, OtherGlobalIds(target)), input).result
        bare == applyFilters(WithoutAll(rules, {rules[g].id : g \in GlobalOn(target)}),
                             input).result
    IN  /\ TimesApplied(top.id) = 1
        /\ AppliedIds \cap OtherGlobalIds(target) = {}
        /\ result.appliedRules = alone.appliedRules
        /\ Whole(result, target) = Whole(alone, target)
        /\ top.action = "delete_all" =>
              \A k \in DOMAIN Fields(result, target) :
                  \E i \in SpecificOn(target) : rules[i].action = "keep" /\ k \in MatchedBy(i)
        /\ top.action = "keep_all" => Whole(result, target) = Whole(bare, target)

\* C5 as claimed: per target, exactly the highest-priority enabled
\* delete_all/keep_all rule is applied and recorded; delete_all clears the
\* collection before the specific rules run, keep_all leaves the data as it
\* is, and the other global rules are neither recorded nor of any effect.
C5_OneGlobalRuleAnyTarget ==
    Returned => \A target \in FilterTarget :
        GlobalOn(target) # {} => OneGlobalRuleOn(target)

\* C5 amended: the same, on headers, query_params and form_data, and on
\* json_body when the JSON body is a non-null object (or an array).
C5_OneGlobalRule ==
    Returned => \A target \in FilterTarget :
        (GlobalOn(target) # {} /\ (target = "json_body" => JsonBodyIsObject))
            => OneGlobalRuleOn(target)

C5_Witness ==
    /\ Returned
    /\ \E target \in FilterTarget :
        /\ Cardinality(GlobalOn(target)) = 2
        /\ target = "json_body" => JsonBodyIsObject
        /\ rules[TopGlobal(target)].action = "delete_all"
        /\ TopGlobal(target) = 2
        /\ rules[1].action = "keep_all"
        /\ DOMAIN Fields(input, target) # {}
        /\ DOMAIN Fields(result, target) = {}

\* ------------------------------------------------------------------------ C6
\* C6: an enabled delete or keep rule is in appliedRules exactly when some key
\* of the original collection of its target matches it, and then once.
C6_RecordedIffMatched ==
    Returned => \A target \in FilterTarget : \A i \in SpecificOn(target) :
        /\ rules[i].id \in AppliedIds <=> MatchedBy(i) # {}
        /\ TimesApplied(rules[i].id) <= 1

C6_Witness ==
    /\ Returned
    /\ \E target \in FilterTarget : \E i \in SpecificOn(target), g \in GlobalOn(target) :
        /\ rules[g].action = "delete_all"
        /\ rules[g].priority > rules[i].priority
        /\ Cardinality(MatchedBy(i)) >= 2
        /\ TimesApplied(rules[i].id) = 1
        /\ rules[g].id \in AppliedIds

\* ------------------------------------------------------------------------ C7
\* C7: applyFilters leaves the FilterContext and the rule array as the caller
\* built them, and a second call on the same context and rules returns a
\* FilterResult equal to the first.
C7_ApplyFiltersIsPure ==
    /\ calls >= 1 => (ctx = input /\ rules = given)
    /\ calls >= 2 => prev = result

C7_Witness ==
    /\ calls = 2
    /\ ~threw
    /\ input.jsonBody.t = "obj"
    /\ \E i \in 1..Len(rules) : rules[i].action = "delete" /\ rules[i].id \in AppliedIds
    /\ \E i \in 1..Len(rules) : rules[i].target = "json_body" /\ rules[i].id \in AppliedIds
    /\ result.headers # input.headers

\* ------------------------------------------------------------------------ C8
InvalidRegexRules ==
    {i \in 1..Len(rules) :
        /\ rules[i].enabled
        /\ rules[i].matchMode = "regex"
        /\ ~RegExpCompiles(Chars[rules[i].matchValue])}

RegexFailsOpenFor(i) ==
    /\ rules[i].id \notin AppliedIds
    /\ result = applyFilters(Without(rules, i), input).result

\* C8 as claimed: an enabled rule whose matchMode is regex and whose
\* matchValue is no valid regular expression never makes applyFilters throw,
\* is never in appliedRules, and leaves the result as it is without that rule.
C8_RegexFailOpenAnyRule ==
    calls >= 1 =>
        /\ ~threw
        /\ \A i \in InvalidRegexRules : RegexFailsOpenFor(i)

\* C8 amended: the same for an enabled delete or keep rule (a delete_all or
\* keep_all rule ignores its matchValue and is applied whatever it holds).
C8_RegexFailOpen ==
    calls >= 1 =>
        /\ ~threw
        /\ \A i \in InvalidRegexRules :
              rules[i].action \in {"delete", "keep"} => RegexFailsOpenFor(i)

C8_Witness ==
    /\ Returned
    /\ \E i \in InvalidRegexRules :
        /\ rules[i].action = "delete"
        /\ rules[i].priority = 90
        /\ DOMAIN Fields(input, rules[i].target) # {}
        /\ \E j \in SpecificOn(rules[i].target) : rules[j].id \in AppliedIds

\* ------------------------------------------------------------------------ C9
\* C9 as claimed: a JSON body that is not a non-null object (a string, a
\* number, a boolean, an array, null) is returned equal to the input, and no
\* json_body rule is recorded.
C9_NonObjectBodyUntouched ==
    (Returned /\ input.jsonBody.t # "obj") =>
        /\ result.jsonBody = input.jsonBody
        /\ \A i \in EnabledOn("json_body") : rules[i].id \notin AppliedIds

\* ----------------------------------------------------------------------- C10
\* C10 as claimed: when the enabled rules hold two or more delete_all/keep_all
\* rules on one target, the FilterResult carries a warning.
C10_ConflictWarning ==
    Returned =>
        ((\E target \in FilterTarget : Cardinality(GlobalOn(target)) >= 2)
            => result.warnings # << >>)

\* -------------------------------------- vocabulary of the CurlFilter claims
\* what is shown is the outcome of handleFilter on the input and the rules
\* as they stand
Filtered ==
    /\ error = ""
    /\ filterResult # NoResult
    /\ handleFilter(inputCurl, rules) =
          [outputCurl |-> outputCurl, error |-> "", filterResult |-> filterResult]

\* the ParsedCurl of the input
ParsedInput == parseCurl(inputCurl).r

\* the last position before i that holds a double quote, 0 when none does
lastDoubleQuote(s, i) ==
    LET at == {j \in 1..(i - 1) : charAt(s, j) = "\""}
    IN  IF at = {} THEN 0 ELSE CHOOSE j \in at : \A k \in at : j >= k

\* the final argument of a rebuilt command: the text between its last two
\* double quotes
FinalArgument(cmd) ==
    Slice(cmd, lastDoubleQuote(cmd, Len(cmd)) + 1, Len(cmd) - 1)

\* the argument that follows " -d " in a rebuilt command, up to the final
\* argument, "" when there is no -d
BodyArgument(cmd) ==
    IF Includes(cmd, " -d ")
    THEN Slice(cmd, IndexOf(cmd, " -d ") + 4, lastDoubleQuote(cmd, Len(cmd)) - 2)
    ELSE ""

\* the decoded names of the parameters a URL carries, one for each
\* non-empty piece of its query
RECURSIVE namesOfPieces(_, _)
namesOfPieces(pieces, i) ==
    IF i > Len(pieces) THEN << >>
    ELSE (IF pieces[i] = "" THEN << >>
          ELSE <<decodeFormText(Slice(pieces[i], 1, firstOf(pieces[i], 1, "=") - 1))>>)
         \o namesOfPieces(pieces, i + 1)

QueryNames(url) == namesOfPieces(split(urlQuery(url), 1, "&"), 1)

TimesIn(seq, x) == Cardinality({i \in 1..Len(seq) : seq[i] = x})

HasRule(action, target) ==
    \E i \in 1..Len(rules) :
        rules[i].enabled /\ rules[i].action = action /\ rules[i].target = target

\* the names of the fields a body text carries: the members of a JSON
\* object, else the names of a form
BodyFields(text) ==
    IF JSONparse(text).v.t = "obj" THEN DOMAIN JSONparse(text).v.v
    ELSE DOMAIN parseFormData(text).obj.v

\* the fields of the filtered body
FilteredFields ==
    IF filterResult.jsonBody.t = "obj" THEN DOMAIN filterResult.jsonBody.v
    ELSE DOMAIN filterResult.formData

\* ----------------------------------------------------------------------- C11
\* C11 as claimed: after parse, applyFilters and rebuild, a query parameter
\* the filter removed is absent from the URL of the rebuilt command, every
\* query parameter it left is there exactly once, and with an enabled
\* delete_all rule on query_params the URL carries no query parameter.
C11_QueryParamsRebuilt ==
    Filtered =>
        /\ \A i \in 1..Len(ParsedInput.queryParams.keys) :
              TimesIn(QueryNames(FinalArgument(outputCurl)), ParsedInput.queryParams.keys[i])
                 = IF ParsedInput.queryParams.keys[i] \in DOMAIN filterResult.queryParams
                   THEN 1 ELSE 0
        /\ HasRule("delete_all", "query_params")
              => QueryNames(FinalArgument(outputCurl)) = << >>

\* ----------------------------------------------------------------------- C12
\* C12 as claimed: the -d argument of the rebuilt command is the filtered
\* body serialized (the JSON text of jsonBody when it is set, else the form
\* encoding of formData when it has fields, else the raw body), and no field
\* a rule removed is among the fields the -d argument carries.
C12_BodyRebuilt ==
    Filtered =>
        /\ stripQuotes(BodyArgument(outputCurl)) =
              IF filterResult.jsonBody # JNull THEN JSONstringify(filterResult.jsonBody)
              ELSE IF DOMAIN filterResult.formData # {}
                   THEN formEncode(orderedAs(filterResult.formData, ParsedInput.formData), 1)
              ELSE ParsedInput.data
        /\ BodyFields(stripQuotes(BodyArgument(outputCurl))) \subseteq FilteredFields

\* ------------------------------------------ vocabulary of the parser claims
\* the flags whose argument parseCurl reads: the token after one of them is
\* that argument, whatever it looks like
TakesArgument(token) ==
    token \in {"-X", "--request", "-H", "--header", "-d", "--data", "--data-raw"}

\* the positions of the tokens that begin with http:// or https:// once
\* their surrounding quotes are stripped, arguments of the flags apart
UrlTokenPositions(tokens) ==
    {i \in 1..Len(tokens) :
        /\ i = 1 \/ ~TakesArgument(tokens[i - 1])
        /\ \/ StartsWith(stripQuotes(tokens[i]), "http://")
           \/ StartsWith(stripQuotes(tokens[i]), "https://")}

FirstUrlToken(tokens) ==
    tokens[CHOOSE i \in UrlTokenPositions(tokens) : \A j \in UrlTokenPositions(tokens) : i <= j]

\* nothing in the command can be taken for a URL or a method flag
NothingToRecognise(cmd) ==
    /\ ~Includes(cmd, ".")
    /\ ~Includes(cmd, "/")
    /\ ~Includes(cmd, "-X")
    /\ ~Includes(cmd, "--request")

\* ----------------------------------------------------------------------- C13
\* C13 as claimed: parseCurl raises no exception on any command, and returns
\* url = "" and method = "GET" when the command holds nothing that can be
\* taken for a URL or a method flag.
C13_ParseCurlNeverThrows ==
    \A i \in 1..Len(parses) :
        /\ ~parses[i].threw
        /\ (i = 1 /\ NothingToRecognise(command))
              => parses[i].r.url = "" /\ parses[i].r.method = "GET"

\* ----------------------------------------------------------------------- C14
\* C14 as claimed: the url parseCurl returns is the first token, from the
\* left, that begins with http:// or https:// once its surrounding quotes are
\* stripped, quoted or not and wherever it stands; that token is not put into
\* otherOptions and no later token replaces it.
C14_FirstUrlToken ==
    (Len(parses) >= 1 /\ ~parses[1].threw /\ UrlTokenPositions(tokensOf(command)) # {})
        => /\ parses[1].r.url = stripQuotes(FirstUrlToken(tokensOf(command)))
           /\ \A j \in 1..Len(parses[1].r.otherOptions) :
                 parses[1].r.otherOptions[j] # FirstUrlToken(tokensOf(command))

\* ----------------------------------------------------------------------- C15
\* C15 as claimed: for a command that begins with curl, with c1 =
\* build(parse(cmd)) and c2 = build(parse(c1)), parse(c2) has the headers, the
\* method and the url of parse(c1).
C15_RoundTrip ==
    (Len(parses) >= 3 /\ StartsWith(command, "curl"))
        => /\ ~parses[3].threw
           /\ parses[3].r.headers = parses[2].r.headers
           /\ parses[3].r.method = parses[2].r.method
           /\ parses[3].r.url = parses[2].r.url

\* ----------------------------------------------------------------------- C16
\* C16 as claimed: the built command holds every entry of the parsed
\* request's otherOptions, unaltered and in their order.
C16_OtherOptionsSurvive ==
    \A i \in 1..Len(builds) :
        Includes(builds[i], optionArgs(parses[i].r.otherOptions, 1))

\* --------------------------------------- vocabulary of the validator claims
\* validateRules has returned for the rule array
Validated == validation # NoValidation

\* a delete or keep rule whose matchValue is absent, empty or white space
LacksMatchValue(rule) ==
    /\ Has(rule, "action")
    /\ rule.action \in {"delete", "keep"}
    /\ ~Has(rule, "matchValue") \/ Trim(rule.matchValue) = ""

\* validateRules reports the message among the errors of rule i
ReportedFor(i, message) ==
    \E n \in 1..Len(validation.errors) :
        /\ validation.errors[n].kind = "rule"
        /\ validation.errors[n].index = i
        /\ \E m \in 1..Len(validation.errors[n].messages) :
              validation.errors[n].messages[m] = message

\* the IDs that two or more rules of the rule array carry
DuplicatedIds ==
    {draft[i].id : i \in {n \in 1..Len(draft) :
                            \E m \in 1..Len(draft) : m # n /\ draft[m].id = draft[n].id}}

\* the enabled delete and keep rules at or below the priority of an enabled
\* delete_all or keep_all rule of their target
ShadowedRules ==
    {i \in 1..Len(draft) :
        /\ draft[i].enabled
        /\ draft[i].action \in {"delete", "keep"}
        /\ \E g \in 1..Len(draft) :
              /\ draft[g].enabled
              /\ draft[g].action \in {"delete_all", "keep_all"}
              /\ draft[g].target = draft[i].target
              /\ draft[i].priority <= draft[g].priority}

ShadowWarned ==
    \E n \in 1..Len(validation.warnings) : validation.warnings[n].kind = "shadowed"

\* the four filtered collections applyFilters returns
Collections(w) ==
    <<w.threw, w.result.headers, w.result.queryParams, w.result.formData, w.result.jsonBody>>

\* ----------------------------------------------------------------------- C17
\* C17 as claimed: every rule whose action is delete or keep and whose
\* matchValue is absent, empty or white space gets isValid = false from
\* validateRule, with the error that a match value is required.
C17_MatchValueRequired ==
    Validated => \A i \in 1..Len(draft) :
        LacksMatchValue(draft[i]) =>
            /\ ~validateRule(draft[i]).isValid
            /\ ReportedFor(i, "matchValueRequired")

\* ----------------------------------------------------------------------- C18
\* C18: when two or more rules of the rule array share an ID, validateRules
\* returns isValid = false and one error that lists exactly the duplicated
\* IDs.
C18_DuplicateIdsRejected ==
    (Validated /\ DuplicatedIds # {}) =>
        /\ ~validation.isValid
        /\ \E n \in 1..Len(validation.errors) :
              /\ validation.errors[n].kind = "duplicateIds"
              /\ {validation.errors[n].ids[m] : m \in 1..Len(validation.errors[n].ids)}
                    = DuplicatedIds

C18_Witness ==
    /\ Validated
    /\ Cardinality(DuplicatedIds) = 2
    /\ \A i \in 1..Len(draft) : validateRule(draft[i]).isValid
    /\ ~validation.isValid

\* ----------------------------------------------------------------------- C19
\* C19 as claimed: validateRules gives the shadow warning exactly when some
\* enabled delete or keep rule is at or below the priority of the highest
\* enabled delete_all or keep_all rule of its target, and applyFilters
\* returns the same four collections with such a rule as without it, on
\* every context.
C19_ShadowWarningAgrees ==
    Validated =>
        /\ ShadowWarned <=> ShadowedRules # {}
        /\ \A i \in ShadowedRules : \A c \in Contexts :
              Collections(applyFilters(draft, c)) = Collections(applyFilters(Without(draft, i), c))


\* ----------------------------------------------------------------------- C20
\* an import has just returned
Imported == clock' # clock

\* what the storage holds is what it held before the import
StorageKept ==
    /\ storedRules' = storedRules
    /\ storedConfig' = storedConfig
    /\ localConfig' = localConfig

\* the storage of the manager that imported holds exactly the imported rules
StorageHoldsImported ==
    IF importResult'.manager = "IndexedDB"
    THEN /\ storedRules' = Range(importResult'.config.rules)
         /\ storedConfig' = importResult'.config
    ELSE localConfig' = importResult'.config

\* C20 as claimed: import is all-or-nothing. An import that returns
\* success = false names an error and leaves the stored rules and the stored
\* configuration as they were; stored data changes only when the import
\* returns success = true, and then the stored rules are exactly the imported
\* ones.
C20_ImportAllOrNothing ==
    [][Imported =>
          IF importResult'.success THEN StorageHoldsImported
          ELSE importResult'.error # "" /\ StorageKept]_vars


\* ----------------------------------------------------------------------- C21
\* C21 as claimed: after any sequence of saveRules calls the rule store
\* matches the rule array of the most recent saveRules call that succeeded:
\* loadRules returns those rules and no others, so a rule left out of the
\* saved array does not come back.
C21_StoreMatchesLastSave ==
    lastSaved.done =>
        /\ Range(loadRules(storedRules)) = Range(lastSaved.rules)
        /\ Len(loadRules(storedRules)) = Len(lastSaved.rules)

\* ----------------------------------------------------------------------- C30
\* every call of the function saveRules has ended and returned true
AllSavesSucceeded ==
    /\ returned # << >>
    /\ \A c \in Callers : savers[c].pc = "idle"
    /\ \A n \in 1..Len(returned) : returned[n].ok

\* C30 as claimed: once all calls of saveRules(R) have completed
\* successfully, whatever their interleaving, the rules loadRules reads and
\* the rules of the configuration loadConfig reads are the same rule set, and
\* it is the argument of one of the calls.
C30_CopiesConsistent ==
    AllSavesSucceeded =>
        /\ Range(loadRules(storedRules))
              = Range(loadConfig(storedConfig, TRUE, getBackups(idbBackups)).rules)
        /\ \E n \in 1..Len(returned) :
              Range(loadRules(storedRules)) = Range(returned[n].rules)


\* ----------------------------------------------------------------------- C22
\* saveRulesToStorage has just been called
SaveAttempted == attempt'.n # attempt.n

KeepRules == {i \in 1..Len(rules) : rules[i].enabled /\ rules[i].action = "keep"}

\* C23 as claimed: the keep action keeps only matching items. After an
\* enabled keep rule was applied to a target, every key left in the filtered
\* collection of that target matches the rule's matchValue under its
\* matchMode.
C23_KeepOnlyMatching ==
    Returned => \A i \in KeepRules :
        \A k \in DOMAIN Fields(result, rules[i].target) :
            isMatch(k, rules[i].matchValue, rules[i].matchMode)

\* ----------------------------------------------------------------------- C24
\* C24 as claimed: when an enabled delete rule and an enabled keep rule on the
\* same target both match a key, the rule with the higher priority takes
\* effect: the key is in the filtered collection if the keep rule has the
\* higher priority and is not in it if the delete rule has.
C24_HigherPriorityWins ==
    Returned => \A target \in FilterTarget :
        \A d \in SpecificOn(target) : \A p \in SpecificOn(target) :
            (rules[d].action = "delete" /\ rules[p].action = "keep") =>
                \A k \in MatchedBy(d) \cap MatchedBy(p) :
                    /\ rules[p].priority > rules[d].priority
                          => k \in DOMAIN Fields(result, target)
                    /\ rules[d].priority > rules[p].priority
                          => k \notin DOMAIN Fields(result, target)

\* ----------------------------------------------------------------------- C25
\* C25: filtering only removes. For every target, every key of the filtered
\* collection is a key of the input collection and maps to the value it has
\* in the input: applyFilters adds no key, renames none and changes no value.
C25_FilteringOnlyRemoves ==
    Returned => \A target \in FilterTarget :
        \A k \in DOMAIN Fields(result, target) :
            /\ k \in DOMAIN Fields(input, target)
            /\ Fields(result, target)[k] = Fields(input, target)[k]

\* a keep rule has written keys back into a collection that delete_all had
\* emptied, and other keys of the input are gone
C25_Witness ==
    /\ Returned
    /\ \E target \in FilterTarget :
          /\ DOMAIN Fields(result, target) # {}
          /\ DOMAIN Fields(result, target) # DOMAIN Fields(input, target)
          /\ \E g \in GlobalOn(target) : rules[g].action = "delete_all"
          /\ \E i \in SpecificOn(target) : rules[i].action = "keep" /\ MatchedBy(i) # {}


\* ----------------------------------------------------------------------- C26
\* the last n entries of a sequence, the latest first
RECURSIVE latestFirst(_, _)
latestFirst(seq, n) ==
    IF n = 0 \/ seq = << >> THEN << >>
    ELSE <<seq[Len(seq)]>> \o latestFirst(SubSeq(seq, 1, Len(seq) - 1), n - 1)

\* C26 as claimed: after any sequence of saveConfig calls the stored backups
\* are never more than 10 and are those of the 10 most recent saves, in the
\* localStorage manager and in the IndexedDB manager.
C26_TenLatestBackups ==
    /\ localConfig # NoConfig =>
          /\ Len(localBackups) <= MaxBackups
          /\ localBackups = latestFirst(configSaves, MaxBackups)
    /\ storedConfig # NoConfig =>
          /\ Cardinality(idbBackups) <= MaxBackups
          /\ getBackups(idbBackups) = latestFirst(configSaves, MaxBackups)

\* ---------------------------------------------------------------- C27
\* loadConfig found the stored configuration missing, unreadable, of
\* another version or with rules that do not pass validateRules
StoredUnusable ==
    \/ ~loaded.readable
    \/ loaded.stored = NoConfig
    \/ loaded.stored.version # CONFIG_VERSION
    \/ validateRulesThrows(loaded.stored.rules)
    \/ ~validateRules(loaded.stored.rules).isValid

\* the rules of the n-th backup of the list loadConfig read pass validateRules
BackupPasses(n) ==
    /\ ~validateRulesThrows(loaded.backups[n].config.rules)
    /\ validateRules(loaded.backups[n].config.rules).isValid

\* the configurations of the most recent backup whose rules pass validation
\* (none when no backup passes)
MostRecentValidBackup ==
    {loaded.backups[n].config : n \in {m \in 1..Len(loaded.backups) :
        BackupPasses(m) /\ \A k \in 1..(m - 1) : ~BackupPasses(k)}}

\* C27: loadConfig never throws and the rules of the configuration it returns
\* pass validateRules; when the stored configuration is missing, unreadable,
\* of another version or invalid, what it returns is the most recent backup
\* whose rules pass validation or the default configuration
C27_LoadConfigReturnsValid ==
    loaded.n > 0 =>
        /\ loaded.config # Thrown
        /\ ~validateRulesThrows(loaded.config.rules)
        /\ validateRules(loaded.config.rules).isValid
        /\ StoredUnusable =>
              \/ loaded.config \in MostRecentValidBackup
              \/ loaded.config = createDefaultConfig

\* loadConfig found rules that do not pass validation, passed over the
\* latest backup and returned an older one
C27_Witness ==
    /\ loaded.n > 0
    /\ StoredUnusable
    /\ loaded.readable
    /\ loaded.config \in MostRecentValidBackup
    /\ loaded.config # loaded.backups[1].config
    /\ loaded.config # createDefaultConfig

\* ---------------------------------------------------------------- C28
\* the step sets the migration-completed flag
FlagSet == ~migrationFlag /\ migrationFlag'

\* the step removes the config key or the backup key of localStorage
LocalRemoved ==
    \/ localConfig # NoConfig /\ localConfig' = NoConfig
    \/ localBackups # << >> /\ localBackups' = << >>

\* the step is a performMigration call made while the flag is set
FurtherMigration == migration'.n # migration.n /\ migrationFlag

\* C28: the migration-completed flag is set only at the end of a
\* performMigration run whose validateMigration succeeded; the config and
\* backup keys of localStorage are removed only while the flag is set, and
\* what they held is then in the '-backup' keys; a performMigration call made
\* while the flag is set writes nothing to IndexedDB and migrates no rule
C28_RemovedOnlyAfterMigration ==
    [][ /\ FlagSet => migration.pc = "validateMigration" /\ migration'.pc = "idle"
                      /\ migration'.success
        /\ LocalRemoved =>
              /\ migrationFlag
              /\ localConfig # NoConfig => configCopy' = localConfig
              /\ localBackups # << >> => backupCopy' = localBackups
        /\ FurtherMigration =>
              /\ migration'.pc = "idle"
              /\ migration'.migratedRules = 0
              /\ UNCHANGED <<storedRules, storedConfig, idbBackups, localConfig, localBackups>>
      ]_vars

\* a migration was completed, cleanupLocalStorage moved the localStorage
\* data to the '-backup' keys, and a further performMigration found nothing
\* to do
C28_Witness ==
    /\ migrationFlag
    /\ migration.n >= 2
    /\ migration.pc = "idle"
    /\ migration.success
    /\ migration.migratedRules = 0
    /\ localConfig = NoConfig
    /\ localBackups = << >>
    /\ configCopy # NoConfig
    /\ backupCopy # << >>
    /\ storedConfig = migratedConfigOf(configCopy)

\* ---------------------------------------------------------------- C29
\* the step runs an automatic filter pass
AutoPassRuns == autoPass'.n # autoPass.n

\* every pending timer is the one of the last input change, and none is
\* pending once Clear was pressed or the component unmounted
OnlyNewestPending ==
    /\ \A timer \in timers : timer.text = inputCurl /\ timer.due = lastChange + DebounceDelay
    /\ Cardinality(timers) <= 1
    /\ clearedSince \/ ~mounted => timers = {}

=============================================================================
